---- MODULE Spec2Model ----
(***************************************************************************)
(* PrevisorCrises: the critical-time consensus estimator                   *)
(* (ltbolha/tempo_critico.py), the LPPL fitter                             *)
(* (ltbolha/log_periodicidade.py) and the Markov regime-switching filter   *)
(* (ltregime/markov_switching.py, ltregime/filtro_hamilton.py).            *)
(*                                                                         *)
(* Numbers.  Python floats are modelled as follows.                        *)
(*  - times and critical times: integers (one time unit);                  *)
(*  - confidences / weights: integers in tenths (0.6 is 6);                *)
(*  - a weighted mean: the exact fraction [num, den]; den = 0 is the float *)
(*    NaN that numpy's 0/0 produces;                                       *)
(*  - a standard deviation: integer tenths, floor of the square root;      *)
(*  - a probability: integer in 1/10000;                                   *)
(*  - NaN of a fixed-point quantity: the value NaN below, which every      *)
(*    operator propagates and every comparison treats as IEEE does (any    *)
(*    comparison with NaN is false).                                       *)
(***************************************************************************)
EXTENDS Integers, Sequences, FiniteSets, TLC

VARIABLES
    \* EstimadorTempoCritico instance
    horizonte_maximo, tc_estimado, intervalo_confianca,
    ultimo_tc_medio, \* ghost: tc_medio returned by the last successful estimate, or None
    ret,            \* outcome of the last call on the estimator
    \* the warnings machinery the estimator's module reports through
    filtro_avisos,  \* action of the warnings filter: "default" or "ignore"
    registro_avisos, \* __warningregistry__ of tempo_critico: locations already shown
    avisos_exibidos, \* ghost: the warnings the last estimate showed to the user
    \* calls of a function of its arguments alone (_calcular_probabilidade_crise,
    \* classificar_regimes on given fitted means): the last two calls
    sonda, sonda_ant,
    \* AnalisadorLogPeriodico instance
    restricao_tc, parametros_otimos,
    ret_lppl,       \* outcome of the last call on the analyser
    \* ModeloMarkovSwitching instance (a FiltroHamilton holds a reference to it)
    n_regimes, parametros, probabilidades_filtradas, probabilidades_suavizadas,
    ret_ms,         \* outcome of the last call on the model or on its FiltroHamilton
    devolvido,      \* ghost: a parametros dict an earlier ajustar returned and the
                    \* caller still holds: its contents when returned (orig) and
                    \* now (agora); None while the caller holds none
    \* fit calls running side by side on further instances
    objetos,        \* the attributes of each object, by class and instance number
    chamadas        \* the fit call on each instance: its position, arguments, locals

vars == <<horizonte_maximo, tc_estimado, intervalo_confianca, ultimo_tc_medio, ret,
          filtro_avisos, registro_avisos, avisos_exibidos, sonda, sonda_ant, restricao_tc, parametros_otimos, ret_lppl,
          n_regimes, parametros, probabilidades_filtradas, probabilidades_suavizadas,
          ret_ms, devolvido, objetos, chamadas>>

varsAvisos == <<filtro_avisos, registro_avisos, avisos_exibidos>>
varsETC == <<horizonte_maximo, tc_estimado, intervalo_confianca, ultimo_tc_medio, ret,
             varsAvisos>>
varsSonda == <<sonda, sonda_ant>>
varsConc == <<objetos, chamadas>>
varsLPPL == <<restricao_tc, parametros_otimos, ret_lppl>>
varsMS == <<n_regimes, parametros, probabilidades_filtradas, probabilidades_suavizadas,
            ret_ms, devolvido>>

-----------------------------------------------------------------------------
(* Bounds of the model *)

MaxHorizonte == 60      \* horizonte_maximo given to the constructor
MaxRegimes == 3         \* n_regimes given to ModeloMarkovSwitching
MaxIter == 6            \* max_iter given to ajustar
MaxPassos == 2          \* horizonte given to prever_regime

-----------------------------------------------------------------------------
(* Generic numerics *)

NaN == -999999
None == [tipo |-> "None"]

Max(a, b) == IF a >= b THEN a ELSE b
Min(a, b) == IF a <= b THEN a ELSE b
Abs(a) == IF a < 0 THEN -a ELSE a

RECURSIVE IsqrtBusca(_, _, _)
IsqrtBusca(x, lo, hi) ==
    IF lo >= hi THEN lo
    ELSE LET mid == (lo + hi + 1) \div 2
         IN  IF mid * mid <= x THEN IsqrtBusca(x, mid, hi)
                               ELSE IsqrtBusca(x, lo, mid - 1)

\* floor(sqrt(x)) for 0 <= x < 2^31
Isqrt(x) == IsqrtBusca(x, 0, 46340)

RECURSIVE SomaF(_, _)
\* sum of f[x] over the finite set S
SomaF(f, S) ==
    IF S = {} THEN 0
    ELSE LET x == CHOOSE y \in S : TRUE IN f[x] + SomaF(f, S \ {x})

\* a fraction num/den of integers (den >= 0); den = 0 is NaN
Rat(n, d) == [tipo |-> "num", num |-> n, den |-> d]
RatNaN(r) == r.den = 0
\* IEEE comparisons of a fraction with an integer k: false on NaN
RatLt(r, k) == r.den > 0 /\ r.num < k * r.den
RatLe(r, k) == r.den > 0 /\ r.num <= k * r.den
RatGe(r, k) == r.den > 0 /\ r.num >= k * r.den
RatGt(r, k) == r.den > 0 /\ r.num > k * r.den
\* r - k
RatSubInt(r, k) == Rat(r.num - k * r.den, r.den)
\* equality of values (None of them NaN)
RatEq(r, s) == r.den > 0 /\ s.den > 0 /\ r.num * s.den = s.num * r.den

-----------------------------------------------------------------------------
(* LPPL fitter: the part of ajustar_lppl that fixes tc                      *)

TcEscala == 100         \* normalised tc is kept in hundredths: 1.01 is 101
TcMinPadrao == 101
TcMaxPadrao == 150

\* bounds of the normalised tc handed to the optimiser
LimitesTc(restricao) ==
    IF restricao = None THEN <<TcMinPadrao, TcMaxPadrao>>
    ELSE <<restricao.tc_min, restricao.tc_max>>

\* tc_real = tempos[0] + tc * (tempos[-1] - tempos[0])
TcReal(tempos, tc) == tempos.t0 + (tc * (tempos.tN - tempos.t0)) \div TcEscala

\* the dict parametros_otimos built from resultado (x, fun, success); the
\* field serie is a ghost: the series the parameters were fitted to
ParametrosOtimos(tempos, resultado) ==
    [A |-> resultado.A, B |-> resultado.B,
     tc |-> TcReal(tempos, resultado.tc), t_c_norm |-> resultado.tc,
     m |-> resultado.m, omega |-> resultado.omega, phi |-> resultado.phi,
     erro_ajuste |-> resultado.fun, sucesso |-> resultado.success,
     serie |-> tempos.id]

\* t_norm = (tempos - tempos[0]) / (tempos[-1] - tempos[0]), in hundredths,
\* at the time t of the series
TNorm(tempos, t) == ((t - tempos.t0) * TcEscala) \div (tempos.tN - tempos.t0)

DtMinimo == 0           \* 1e-10, below the hundredth

\* _modelo_lppl(t, A, B, tc, m, omega, phi) at one time: the value
\* A + B dt^m + B dt^m cos(omega ln dt + phi) is fixed by the five parameters
\* and by dt = max(tc - t, 1e-10), which is what the model keeps (t and tc in
\* hundredths)
ModeloLppl(t, A, B, tc, m, omega, phi) ==
    [A |-> A, B |-> B, m |-> m, omega |-> omega, phi |-> phi,
     dt |-> Max(tc - t, DtMinimo)]

\* np.exp of a value of the curve
Exp(x) == [exp |-> x]

\* prever(tempos_futuros) at one time of the array: tempos_futuros goes to
\* _modelo_lppl as given, beside the normalised t_c_norm
Prever(params, tempo) ==
    IF params = None THEN [raise |-> TRUE, erro |-> "ValueError"]
    ELSE [raise |-> FALSE,
          valor |-> Exp(ModeloLppl(tempo * TcEscala, params.A, params.B, params.t_c_norm,
                                   params.m, params.omega, params.phi))]

-----------------------------------------------------------------------------
(* Critical-time consensus estimator                                       *)

Metodos == {"lppl", "singularidade", "ornstein_uhlenbeck", "volatilidade"}

Falha == [ok |-> FALSE]
Estimativa(tc, conf) == [ok |-> TRUE, tc |-> tc, conf |-> conf]

\* _estimar_tc_lppl: a fresh AnalisadorLogPeriodico() (default tc bounds) is
\* fitted; otim is what the optimiser and the confidence score deliver:
\* an exception, or a normalised tc inside the bounds and a confidence that
\* calcular_confianca_lppl clips to [0, 1].
EstimarTcLppl(tempos, otim) ==
    IF otim.falha THEN Falha
    ELSE Estimativa(TcReal(tempos, otim.tc), otim.conf)

\* _estimar_tc_singularidade: minimize_scalar(bounds = (tempos[-1] + 1,
\* tempos[-1] + horizonte_maximo), method = 'bounded') raises ValueError when
\* the lower bound exceeds the upper one, and otherwise delivers a point of
\* the bounds (otim.frac = 0: the lower end, 1: the upper end); the
\* confidence is exp(-fun / n), in [0, 1].
EstimarTcSingularidade(tempos, otim, H) ==
    IF H < 1 THEN Falha
    ELSE Estimativa(tempos.tN + 1 + otim.frac * (H - 1), otim.conf)

JanelaOu == 30
RecuoOu == 10
MinPontosOu == 5
HorizontePadraoOu == 30
ConfOuExtrapolado == 6
ConfOuPadrao == 3
ConfOuEstavel == 2

\* |1 / theta| for theta in hundredths
InvAbsTheta(theta) == TcEscala \div Abs(theta)

\* _estimar_tc_ou: thetas is the sequence of rolling theta estimates (in
\* hundredths), one per i in range(janela, len(log_precos)).
EstimarTcOu(tempos, thetas, H) ==
    IF Len(thetas) = 0 THEN Falha       \* thetas[:, 1] of an empty array: IndexError
    ELSE IF \E i \in 1..Len(thetas) : thetas[i] < 0
    THEN LET idx_negativo == CHOOSE i \in 1..Len(thetas) :
                                /\ thetas[i] < 0
                                /\ \A j \in 1..(i - 1) : ~(thetas[j] < 0)
             inicio == Max(1, idx_negativo - RecuoOu)
             theta_vals == SubSeq(thetas, inicio, Len(thetas))
         IN  IF /\ Len(theta_vals) > MinPontosOu
                /\ \A i \in 1..Len(theta_vals) : theta_vals[i] < 0
             THEN Estimativa(tempos.tN + InvAbsTheta(theta_vals[Len(theta_vals)]),
                             ConfOuExtrapolado)
             ELSE Estimativa(tempos.tN + HorizontePadraoOu, ConfOuPadrao)
    ELSE Estimativa(tempos.tN + H, ConfOuEstavel)

JanelaVol == 20
ConfVolMax == 8
ConfVolSigmaZero == 3
ConfVolEstavel == 1
SigmaCritico == 100     \* sigma_critico = 1.0, in percent

\* ln(sigma_critico / sigma_atual) in hundredths, for sigma_atual in percent
LnRazaoSigma(sigma_atual) ==
    CASE sigma_atual = 50  -> 69
      [] sigma_atual = SigmaCritico -> 0
      [] sigma_atual = 200 -> -69

\* _estimar_tc_volatilidade: b is the fitted growth rate (in hundredths) and
\* sigma_atual the last rolling volatility (in percent).  On the branch b <= 0
\* the code assigns a name spelled with a c-cedilla and returns "confianca",
\* which is unbound there: UnboundLocalError.
EstimarTcVolatilidade(tempos, b, sigma_atual, H) ==
    IF tempos.n - 1 <= JanelaVol THEN Falha   \* volatilidades[:, 0] of an empty array
    ELSE IF b > 0
    THEN IF sigma_atual > 0
         THEN Estimativa(tempos.pen + LnRazaoSigma(sigma_atual) \div b,
                         Min(b, ConfVolMax))
         ELSE Estimativa(tempos.tN + H \div 2, ConfVolSigmaZero)
    ELSE Falha

ProbUm == 10000         \* the probability 1.0
HorizonteCrise == 30    \* horizonte = 30
ZSaturado == 40         \* |z| >= 4.0: the table below is flat from there on

\* scipy.stats.norm.cdf on z in tenths, in 1/10000 (rounded); NaN for NaN
NormCdfTab ==
    <<5000, 5398, 5793, 6179, 6554, 6915, 7257, 7580, 7881, 8159,
      8413, 8643, 8849, 9032, 9192, 9332, 9452, 9554, 9641, 9713,
      9772, 9821, 9861, 9893, 9918, 9938, 9953, 9965, 9974, 9981,
      9987, 9990, 9993, 9995, 9997, 9998, 9998, 9999, 9999, 10000, 10000>>

NormCdf(z) ==
    IF z = NaN THEN NaN
    ELSE IF z >= 0 THEN NormCdfTab[Min(z, ZSaturado) + 1]
    ELSE ProbUm - NormCdfTab[Min(-z, ZSaturado) + 1]

\* np.clip(x, lo, hi): NaN stays NaN
Clip(x, lo, hi) == IF x = NaN THEN NaN ELSE Max(lo, Min(x, hi))

\* z_score = (horizonte - dias_ate_tc) / (incerteza + 1e-10), in tenths
\* (floor).  incerteza is in tenths; the 1e-10 is below that resolution, so
\* it only decides the case incerteza = 0, where the quotient is
\* (horizonte - dias) * 1e10: beyond the table on either side, or 0.
ZScore(dias, incerteza) ==
    IF RatNaN(dias) \/ incerteza = NaN THEN NaN
    ELSE LET num == HorizonteCrise * dias.den - dias.num
         IN  IF incerteza = 0
             THEN (IF num > 0 THEN ZSaturado ELSE IF num < 0 THEN -ZSaturado ELSE 0)
             ELSE (100 * num) \div (dias.den * incerteza)

\* mutant: the z-score taken with the opposite sign
CalcularProbabilidadeCriseZInvertido(dias, incerteza) ==
    IF RatLe(dias, 0) THEN ProbUm
    ELSE LET z == ZScore(dias, incerteza)
         IN  Clip(NormCdf(IF z = NaN THEN NaN ELSE -z), 0, ProbUm)

\* _calcular_probabilidade_crise(dias_ate_tc, incerteza)
CalcularProbabilidadeCrise(dias, incerteza) ==
    IF RatLe(dias, 0) THEN ProbUm
    ELSE Clip(NormCdf(ZScore(dias, incerteza)), 0, ProbUm)

\* the dict estimativas after the four try blocks
Estimativas(sub) == [m \in {x \in Metodos : sub[x].ok} |-> sub[m].tc]

\* the dict pesos after the four try blocks
Pesos(sub) == [m \in {x \in Metodos : sub[x].ok} |-> sub[m].conf]

\* the warnings issued by the except clauses
Avisos(sub) == {m \in Metodos : ~sub[m].ok}

\* what warnings.warn shows of the warnings of one call: nothing under the
\* action "ignore"; under the action "default" (the one a UserWarning gets when
\* no filter is installed) only the first occurrence of each location
AvisosExibidos(filtro, registro, avisos) ==
    IF filtro = "ignore" THEN {} ELSE avisos \ registro

\* the registry after the call
RegistroApos(filtro, registro, avisos) ==
    IF filtro = "ignore" THEN registro ELSE registro \cup avisos

\* mutant: the check for an empty dict left out
NuncaFalham(estimativas) == FALSE

\* len(estimativas) == 0
TodosFalharam(estimativas) == Cardinality(DOMAIN estimativas) = 0

SomaPesos(pesos) == SomaF(pesos, DOMAIN pesos)

\* mutant: the weights are not normalised (confidences are in tenths)
TcMedioSemNormalizar(estimativas, pesos) ==
    Rat(SomaF([m \in DOMAIN pesos |-> pesos[m] * estimativas[m]], DOMAIN pesos), 10)

\* tc_medio = sum(estimativas * pesos / sum(pesos)); 0/0 is NaN
TcMedio(estimativas, pesos) ==
    LET C == SomaPesos(pesos)
    IN  IF C = 0 THEN Rat(0, 0)
        ELSE Rat(SomaF([m \in DOMAIN pesos |-> pesos[m] * estimativas[m]],
                       DOMAIN pesos), C)

\* tc_std = sqrt(sum(pesos_norm * (estimativas - tc_medio) ** 2)), in tenths
TcStd(estimativas, pesos) ==
    LET C == SomaPesos(pesos)
        N == TcMedio(estimativas, pesos).num
        V == SomaF([m \in DOMAIN pesos |->
                        pesos[m] * (C * estimativas[m] - N) * (C * estimativas[m] - N)],
                   DOMAIN pesos)
    IN  IF C = 0 THEN NaN
        ELSE Isqrt(((V \div C) * 100) \div (C * C))

\* (tc_medio - 2*tc_std, tc_medio + 2*tc_std)
IntervaloConfianca(tc_medio, tc_std) ==
    IF RatNaN(tc_medio) \/ tc_std = NaN
    THEN [inf |-> Rat(0, 0), sup |-> Rat(0, 0)]
    ELSE [inf |-> Rat(10 * tc_medio.num - 2 * tc_std * tc_medio.den, 10 * tc_medio.den),
          sup |-> Rat(10 * tc_medio.num + 2 * tc_std * tc_medio.den, 10 * tc_medio.den)]

\* mutant: no try/except around the sub-estimators, the first failure aborts
EstimarSemIsolamento(tempos, sub) ==
    IF \E m \in Metodos : ~sub[m].ok
    THEN [op |-> "estimar_multiplos_metodos", raise |-> TRUE, erro |-> "Exception",
          sub |-> sub, tempos |-> tempos, avisos |-> {}]
    ELSE LET tc_medio == TcMedio(Estimativas(sub), Pesos(sub))
             tc_std == TcStd(Estimativas(sub), Pesos(sub))
         IN  [op |-> "estimar_multiplos_metodos", raise |-> FALSE,
              sub |-> sub, tempos |-> tempos, avisos |-> {},
              tc_medio |-> tc_medio, estimativas |-> Estimativas(sub),
              pesos |-> Pesos(sub), tc_std |-> tc_std,
              intervalo_confianca |-> IntervaloConfianca(tc_medio, tc_std),
              dias_ate_tc |-> RatSubInt(tc_medio, tempos.tN),
              probabilidade_crise |->
                  CalcularProbabilidadeCrise(RatSubInt(tc_medio, tempos.tN), tc_std)]

\* estimar_multiplos_metodos, given what the four sub-estimators deliver
EstimarMultiplosMetodos(tempos, sub) ==
    LET estimativas == Estimativas(sub)
        pesos == Pesos(sub)
    IN  IF TodosFalharam(estimativas)
        THEN [op |-> "estimar_multiplos_metodos", raise |-> TRUE, erro |-> "ValueError",
              sub |-> sub, tempos |-> tempos, avisos |-> Avisos(sub)]
        ELSE LET tc_medio == TcMedio(estimativas, pesos)
                 tc_std == TcStd(estimativas, pesos)
                 dias_ate_tc == RatSubInt(tc_medio, tempos.tN)
             IN  [op |-> "estimar_multiplos_metodos", raise |-> FALSE,
                  sub |-> sub, tempos |-> tempos, avisos |-> Avisos(sub),
                  tc_medio |-> tc_medio, estimativas |-> estimativas, pesos |-> pesos,
                  tc_std |-> tc_std,
                  intervalo_confianca |-> IntervaloConfianca(tc_medio, tc_std),
                  dias_ate_tc |-> dias_ate_tc,
                  probabilidade_crise |-> CalcularProbabilidadeCrise(dias_ate_tc, tc_std)]

\* mutant: the difference taken the other way round
DiasAteCriseInvertido(tc, tempo_atual) ==
    IF tc = None
    THEN [op |-> "dias_ate_crise", raise |-> TRUE, erro |-> "ValueError",
          tempo_atual |-> tempo_atual]
    ELSE [op |-> "dias_ate_crise", raise |-> FALSE, tempo_atual |-> tempo_atual,
          valor |-> Rat(tempo_atual * tc.den - tc.num, tc.den)]

\* dias_ate_crise(tempo_atual)
DiasAteCrise(tc, tempo_atual) ==
    IF tc = None
    THEN [op |-> "dias_ate_crise", raise |-> TRUE, erro |-> "ValueError",
          tempo_atual |-> tempo_atual]
    ELSE [op |-> "dias_ate_crise", raise |-> FALSE, tempo_atual |-> tempo_atual,
          valor |-> RatSubInt(tc, tempo_atual)]

\* the if/elif chain of nivel_urgencia
Nivel(dias) ==
    IF RatLt(dias, 0) THEN "EXPIRADO"
    ELSE IF RatLt(dias, 5) THEN "IMEDIATO"
    ELSE IF RatLt(dias, 20) THEN "URGENTE"
    ELSE IF RatLt(dias, 60) THEN "MODERADO"
    ELSE "BAIXO"

\* nivel_urgencia(tempo_atual)
NivelUrgencia(tc, tempo_atual) ==
    LET d == DiasAteCrise(tc, tempo_atual)
    IN  IF d.raise
        THEN [op |-> "nivel_urgencia", raise |-> TRUE, erro |-> d.erro,
              tempo_atual |-> tempo_atual]
        ELSE [op |-> "nivel_urgencia", raise |-> FALSE, tempo_atual |-> tempo_atual,
              nivel |-> Nivel(d.valor), dias |-> d.valor]

-----------------------------------------------------------------------------
(* Inputs of the estimator's operations *)

\* a series: first, second to last and last time, and the length
SeriesETC ==
    { [t0 |-> 0, pen |-> 95, tN |-> 100, n |-> 21],
      [t0 |-> 0, pen |-> 96, tN |-> 100, n |-> 26],
      [t0 |-> 0, pen |-> 99, tN |-> 100, n |-> 37] }

\* what differential_evolution and calcular_confianca_lppl deliver: an
\* exception (tempos given as a list: "tempos - tempos[0]" is a TypeError), or
\* a normalised tc and a confidence (0 when R^2 <= 0, e.g. constant prices)
OtimLppl ==
    { [falha |-> TRUE, tc |-> TcMinPadrao, conf |-> 0],
      [falha |-> FALSE, tc |-> TcMinPadrao, conf |-> 0],
      [falha |-> FALSE, tc |-> TcMaxPadrao, conf |-> 7] }

\* what minimize_scalar delivers: the point of the bounds and exp(-fun / n)
OtimSing == { [frac |-> 0, conf |-> 9], [frac |-> 1, conf |-> 2] }

\* rolling theta estimates of a series of n points
ThetasDe(n) ==
    IF n <= JanelaOu THEN { <<>> }
    ELSE LET k == n - JanelaOu
         IN  { [i \in 1..k |-> 2], [i \in 1..k |-> -50], [i \in 1..k |-> -4],
               [i \in 1..k |-> IF i <= 2 THEN 2 ELSE -50],
               [i \in 1..k |-> IF i = 2 THEN 2 ELSE -50] }

\* fitted growth rate b (hundredths) and last volatility (percent)
VolEntradas ==
    { [b |-> -1, sigma |-> 50], [b |-> 3, sigma |-> 50], [b |-> 3, sigma |-> 0],
      [b |-> 3, sigma |-> 200], [b |-> 20, sigma |-> 200] }

AgoraSet == {0, 100, 101}

\* horizonte_maximo given to the constructor
Horizontes == {0, MaxHorizonte}

-----------------------------------------------------------------------------
(* The estimator as a state machine *)

\* the warnings filter in force: none installed (the estimator used as a
\* library), or warnings.filterwarnings('ignore') (run through main.py)
FiltrosAvisos == {"default", "ignore"}

\* the filter main.py installs before anything else runs
FiltroDeMain == {"ignore"}

\* the classes with a fit method, and the instances of each a program builds
Classes == {"EstimadorTempoCritico", "AnalisadorLogPeriodico", "ModeloMarkovSwitching"}
Instancias == {1, 2}

\* the attributes __init__ binds on self, the constructor called with
\* horizonte_maximo = MaxHorizonte, or with the defaults of the other classes
CamposIniciais(classe) ==
    CASE classe = "EstimadorTempoCritico" ->
            [horizonte_maximo |-> MaxHorizonte, tc_estimado |-> None,
             intervalo_confianca |-> None]
      [] classe = "AnalisadorLogPeriodico" ->
            [restricao_tc |-> None, parametros_otimos |-> None]
      [] classe = "ModeloMarkovSwitching" ->
            [n_regimes |-> 2, parametros |-> None, probabilidades_filtradas |-> None,
             probabilidades_suavizadas |-> None]

\* a fit call not yet made on an instance of the class; sobreposta is a
\* ghost: the call began while the call on the other instance was running
ChamadaInicial(classe) ==
    [classe |-> classe, pc |-> "ocioso", args |-> None, pendentes |-> <<>>,
     resultado |-> None, ret |-> None, sobreposta |-> FALSE]

\* the state after the three constructors: EstimadorTempoCritico(H) with H in
\* Hs under a warnings filter of Fs, AnalisadorLogPeriodico(restricao_tc) with restricao_tc in Rs and
\* ModeloMarkovSwitching(k) with k in Ks; nothing has been called yet
Construidos(Hs, Fs, Rs, Ks, Ps) ==
    /\ horizonte_maximo \in Hs
    /\ filtro_avisos \in Fs
    /\ registro_avisos = {}
    /\ avisos_exibidos = {}
    /\ tc_estimado = None
    /\ intervalo_confianca = None
    /\ ultimo_tc_medio = None
    /\ ret = [op |-> "__init__", raise |-> FALSE]
    /\ sonda = [op |-> "nenhuma"]
    /\ sonda_ant = [op |-> "nenhuma"]
    /\ restricao_tc \in Rs
    /\ parametros_otimos = None
    /\ ret_lppl = [op |-> "__init__"]
    /\ n_regimes \in Ks
    /\ parametros = None
    /\ probabilidades_filtradas = None
    /\ probabilidades_suavizadas = None
    /\ ret_ms = [op |-> "__init__", raise |-> FALSE]
    /\ devolvido = None
    /\ objetos = [ob \in Classes \X Instancias |-> CamposIniciais(ob[1])]
    /\ chamadas \in { [i \in DOMAIN par |-> ChamadaInicial(par[i])] : par \in Ps }

\* constructor arguments of the instances a specification does not exercise:
\* restricao_tc and n_regimes at their defaults
HorizonteFixo == {MaxHorizonte}
RestricaoPadrao == {None}
RegimesPadrao == {2}
SemChamadas == {<<>>}

InitETC == Construidos(Horizontes, FiltroDeMain, RestricaoPadrao, RegimesPadrao, SemChamadas)

\* what the four sub-estimators deliver on one call
SubEstimativas(tempos, ol, os, th, v, H) ==
    [lppl |-> EstimarTcLppl(tempos, ol),
     singularidade |-> EstimarTcSingularidade(tempos, os, H),
     ornstein_uhlenbeck |-> EstimarTcOu(tempos, th, H),
     volatilidade |-> EstimarTcVolatilidade(tempos, v.b, v.sigma, H)]

\* mutant: tc_estimado and intervalo_confianca are cleared when the call starts,
\* so a call in which all methods fail leaves them at None
EstimarReinicia ==
    \E tempos \in SeriesETC, ol \in OtimLppl, os \in OtimSing, v \in VolEntradas :
      \E th \in ThetasDe(tempos.n) :
        \E r \in {EstimarMultiplosMetodos(tempos,
                      SubEstimativas(tempos, ol, os, th, v, horizonte_maximo))} :
            /\ ret' = r
            /\ IF r.raise
               THEN /\ tc_estimado' = None
                    /\ intervalo_confianca' = None
                    /\ UNCHANGED ultimo_tc_medio
               ELSE /\ tc_estimado' = r.tc_medio
                    /\ intervalo_confianca' = r.intervalo_confianca
                    /\ ultimo_tc_medio' = r.tc_medio
            /\ avisos_exibidos' = AvisosExibidos(filtro_avisos, registro_avisos, r.avisos)
            /\ registro_avisos' = RegistroApos(filtro_avisos, registro_avisos, r.avisos)
            /\ UNCHANGED <<horizonte_maximo, filtro_avisos, varsSonda, varsLPPL, varsMS, varsConc>>

Estimar ==
    \E tempos \in SeriesETC, ol \in OtimLppl, os \in OtimSing, v \in VolEntradas :
      \E th \in ThetasDe(tempos.n) :
        \E r \in {EstimarMultiplosMetodos(tempos,
                      SubEstimativas(tempos, ol, os, th, v, horizonte_maximo))} :
            /\ ret' = r
            /\ IF r.raise
               THEN UNCHANGED <<tc_estimado, intervalo_confianca, ultimo_tc_medio>>
               ELSE /\ tc_estimado' = r.tc_medio
                    /\ intervalo_confianca' = r.intervalo_confianca
                    /\ ultimo_tc_medio' = r.tc_medio
            /\ avisos_exibidos' = AvisosExibidos(filtro_avisos, registro_avisos, r.avisos)
            /\ registro_avisos' = RegistroApos(filtro_avisos, registro_avisos, r.avisos)
            /\ UNCHANGED <<horizonte_maximo, filtro_avisos, varsSonda, varsLPPL, varsMS, varsConc>>

ConsultarDias ==
    \E agora \in AgoraSet :
        /\ ret' = DiasAteCrise(tc_estimado, agora)
        /\ UNCHANGED <<horizonte_maximo, tc_estimado, intervalo_confianca, ultimo_tc_medio,
                       varsAvisos, varsSonda, varsLPPL, varsMS, varsConc>>

ConsultarNivel ==
    \E agora \in AgoraSet :
        /\ ret' = NivelUrgencia(tc_estimado, agora)
        /\ UNCHANGED <<horizonte_maximo, tc_estimado, intervalo_confianca, ultimo_tc_medio,
                       varsAvisos, varsSonda, varsLPPL, varsMS, varsConc>>

NextETC == Estimar \/ ConsultarDias \/ ConsultarNivel

SpecETC == InitETC /\ [][NextETC]_vars

\* repeated estimates on one instance, under either warnings filter
InitAvisos == Construidos(HorizonteFixo, FiltrosAvisos, RestricaoPadrao, RegimesPadrao, SemChamadas)

NextAvisos == Estimar

SpecAvisos == InitAvisos /\ [][NextAvisos]_vars

-----------------------------------------------------------------------------
(* _calcular_probabilidade_crise as a pure function: its calls on a grid of *)
(* arguments, the last two of which are kept                               *)

DiasSonda == {-5, 0, 10, 30, 45}
IncertezaSonda == {0, 50, 200, 400}        \* tenths

Sondar ==
    \E d \in DiasSonda, s \in IncertezaSonda :
        /\ sonda' = [op |-> "_calcular_probabilidade_crise",
                     dias_ate_tc |-> d, incerteza |-> s,
                     probabilidade |-> CalcularProbabilidadeCrise(Rat(d, 1), s)]
        /\ sonda_ant' = sonda
        /\ UNCHANGED <<varsETC, varsLPPL, varsMS, varsConc>>

NextSonda == Sondar

InitSonda == Construidos(HorizonteFixo, FiltroDeMain, RestricaoPadrao, RegimesPadrao, SemChamadas)

SpecSonda == InitSonda /\ [][NextSonda]_vars

-----------------------------------------------------------------------------
(* _estimar_tc_ou and _estimar_tc_volatilidade as functions of the series, *)
(* of what the rolling fits deliver on it and of horizonte_maximo          *)

OuSonda ==
    \E tempos \in SeriesETC, H \in Horizontes :
      \E th \in ThetasDe(tempos.n) :
        /\ sonda' = [op |-> "_estimar_tc_ou", tempos |-> tempos, thetas |-> th,
                      horizonte_maximo |-> H] @@ EstimarTcOu(tempos, th, H)
        /\ sonda_ant' = sonda
        /\ UNCHANGED <<varsETC, varsLPPL, varsMS, varsConc>>

VolSonda ==
    \E tempos \in SeriesETC, H \in Horizontes, v \in VolEntradas :
        /\ sonda' = [op |-> "_estimar_tc_volatilidade", tempos |-> tempos, b |-> v.b,
                      sigma_atual |-> v.sigma, horizonte_maximo |-> H] @@
                     EstimarTcVolatilidade(tempos, v.b, v.sigma, H)
        /\ sonda_ant' = sonda
        /\ UNCHANGED <<varsETC, varsLPPL, varsMS, varsConc>>

NextSub == OuSonda \/ VolSonda

InitSub == Construidos(HorizonteFixo, FiltroDeMain, RestricaoPadrao, RegimesPadrao, SemChamadas)

SpecSub == InitSub /\ [][NextSub]_vars

\* theta is negative from some window on, through the last one
FicaNegativo(thetas) ==
    \E i \in 1..Len(thetas) : \A j \in i..Len(thetas) : thetas[j] < 0

\* C24 (as claimed): when the rolling theta turns negative at some window and
\* stays negative through the last window, _estimar_tc_ou returns
\* tempos[-1] + |1/theta_last| with confidence 0.6; otherwise it returns
\* tempos[-1] + 30 with 0.3 when some theta is negative and
\* tempos[-1] + horizonte_maximo with 0.2 when none is.
C24_OuExtrapolaQuandoFicaNegativo ==
    (sonda.op = "_estimar_tc_ou" /\ sonda.ok) =>
        IF FicaNegativo(sonda.thetas)
        THEN /\ sonda.tc = sonda.tempos.tN + InvAbsTheta(sonda.thetas[Len(sonda.thetas)])
             /\ sonda.conf = ConfOuExtrapolado
        ELSE IF \E i \in 1..Len(sonda.thetas) : sonda.thetas[i] < 0
        THEN /\ sonda.tc = sonda.tempos.tN + HorizontePadraoOu
             /\ sonda.conf = ConfOuPadrao
        ELSE /\ sonda.tc = sonda.tempos.tN + sonda.horizonte_maximo
             /\ sonda.conf = ConfOuEstavel

\* C25 (as claimed): _estimar_tc_volatilidade returns a (tc, confidence) pair
\* on each of its three branches, and when the fitted growth rate b is not
\* positive the pair is tempos[-1] + horizonte_maximo with confidence 0.1.
C25_VolatilidadeEstavelRetorna ==
    (sonda.op = "_estimar_tc_volatilidade" /\ sonda.tempos.n - 1 > JanelaVol) =>
        /\ sonda.ok
        /\ sonda.b <= 0 =>
              /\ sonda.tc = sonda.tempos.tN + sonda.horizonte_maximo
              /\ sonda.conf = ConfVolEstavel

-----------------------------------------------------------------------------
(* Claims about the consensus estimator                                    *)

EstimarRetornou == ret.op = "estimar_multiplos_metodos"
Sobreviventes == {m \in Metodos : ret.sub[m].ok}

\* C1: whenever a non-empty set S of the four sub-estimators succeeds and the
\* others fail, estimar_multiplos_metodos returns normally and both the
\* per-method map it returns and the weights it combines hold exactly the
\* methods of S, each with the estimate and the confidence that method gave.
C1_FalhasIsoladas ==
    (EstimarRetornou /\ Sobreviventes # {}) =>
        /\ ~ret.raise
        /\ DOMAIN ret.estimativas = Sobreviventes
        /\ DOMAIN ret.pesos = Sobreviventes
        /\ \A m \in Sobreviventes :
              /\ ret.estimativas[m] = ret.sub[m].tc
              /\ ret.pesos[m] = ret.sub[m].conf

\* C1 witness: a call in which two methods survived and two failed
C1_Witness ==
    /\ EstimarRetornou
    /\ ~ret.raise
    /\ Cardinality(Sobreviventes) = 2
    /\ Cardinality(DOMAIN ret.pesos) = 2

\* C2: when all four sub-estimators fail the call raises ValueError and
\* delivers no consensus result; a result always has a surviving estimate.
C2_TodosFalharamEFatal ==
    EstimarRetornou =>
        /\ (Sobreviventes = {}) =>
              /\ ret.raise
              /\ ret.erro = "ValueError"
              /\ ~("tc_medio" \in DOMAIN ret)
              /\ ~("estimativas" \in DOMAIN ret)
              /\ ~("probabilidade_crise" \in DOMAIN ret)
        /\ ~ret.raise => DOMAIN ret.estimativas # {}

\* C2 witness: a call in which all four failed has raised
C2_Witness == EstimarRetornou /\ Sobreviventes = {} /\ ret.raise

\* C4 (as claimed): with d = tc_mean - tempos[-1] the returned probability is
\* 1.0 when d <= 0, otherwise Phi((30 - d) / (sigma + eps)), and in every
\* case it lies in [0, 1].
C4_ProbabilidadeEmZeroUm ==
    (EstimarRetornou /\ ~ret.raise) =>
        LET d == RatSubInt(ret.tc_medio, ret.tempos.tN)
            p == ret.probabilidade_crise
        IN  /\ RatLe(d, 0) => p = ProbUm
            /\ ~RatLe(d, 0) => p = Clip(NormCdf(ZScore(d, ret.tc_std)), 0, ProbUm)
            /\ p # NaN /\ 0 <= p /\ p <= ProbUm

\* C9: dias_ate_crise and nivel_urgencia raise exactly when no
\* estimar_multiplos_metodos call has completed successfully yet, and after
\* one has, dias_ate_crise(now) returns the tc_mean of the last successful
\* call minus now.
C9_NaoAjustado ==
    (ret.op \in {"dias_ate_crise", "nivel_urgencia"}) =>
        /\ ret.raise <=> (ultimo_tc_medio = None)
        /\ ret.raise => ret.erro = "ValueError"
        /\ (~ret.raise /\ ret.op = "dias_ate_crise") =>
              ret.valor = RatSubInt(ultimo_tc_medio, ret.tempo_atual)
        /\ (~ret.raise /\ ret.op = "nivel_urgencia") =>
              ret.dias = RatSubInt(ultimo_tc_medio, ret.tempo_atual)

\* C9 witness: dias_ate_crise answered with a positive number of days after a
\* successful estimate
C9_Witness ==
    /\ ret.op = "dias_ate_crise"
    /\ ~ret.raise
    /\ ultimo_tc_medio # None
    /\ RatGt(ret.valor, 0)

\* C10 (as claimed): nivel_urgencia buckets r = tc_mean - now as expired when
\* r <= 0, immediate when 0 < r < 5, urgent when 5 <= r < 20, moderate when
\* 20 <= r < 60 and low when r >= 60.
C10_NivelPorFaixa ==
    (ret.op = "nivel_urgencia" /\ ~ret.raise) =>
        LET r == ret.dias
        IN  /\ RatLe(r, 0) => ret.nivel = "EXPIRADO"
            /\ (RatGt(r, 0) /\ RatLt(r, 5)) => ret.nivel = "IMEDIATO"
            /\ (RatGe(r, 5) /\ RatLt(r, 20)) => ret.nivel = "URGENTE"
            /\ (RatGe(r, 20) /\ RatLt(r, 60)) => ret.nivel = "MODERADO"
            /\ RatGe(r, 60) => ret.nivel = "BAIXO"

\* a series shorter than the window of the OU or of the volatility estimator
SerieCurta(tempos) == tempos.n <= JanelaOu \/ tempos.n - 1 <= JanelaVol

\* C11 (as claimed): a series shorter than a sub-estimator's minimum window is
\* rejected with an input error of its own kind: the call raises, the error is
\* not the one of failed fits, and no consensus result is delivered.
C11_EntradaInvalidaRejeitada ==
    (EstimarRetornou /\ SerieCurta(ret.tempos)) =>
        /\ ret.raise
        /\ ret.erro # "ValueError"

\* C12 (as claimed): on every call of estimar_multiplos_metodos, each
\* sub-estimator that failed has its diagnostic shown to the user, also on a
\* repeated call of the same instance and when run through main.py.
C12_AvisoPorFalha ==
    EstimarRetornou => \A m \in Metodos : ~ret.sub[m].ok => m \in avisos_exibidos

\* sum over the survivors of conf * (C * tc - N)^2, where C is the total
\* confidence and N / C the weighted mean: C^3 times the weighted variance
DesvioQuadratico(estimativas, pesos, C, N) ==
    SomaF([m \in DOMAIN pesos |->
              pesos[m] * (C * estimativas[m] - N) * (C * estimativas[m] - N)],
          DOMAIN pesos)

\* C13 (as claimed): whenever a result is returned, the weights conf_i / C sum
\* to 1 (the total confidence C is not zero), tc_mean is sum(conf_i * tc_i) / C,
\* tc_std (in tenths) is the square root of the weighted variance, and the
\* stored interval is (tc_mean - 2 tc_std, tc_mean + 2 tc_std).
C13_CombinacaoPonderada ==
    (EstimarRetornou /\ ~ret.raise) =>
        LET C == SomaPesos(ret.pesos)
            N == SomaF([m \in DOMAIN ret.pesos |-> ret.pesos[m] * ret.estimativas[m]],
                       DOMAIN ret.pesos)
            s == ret.tc_std
            V == DesvioQuadratico(ret.estimativas, ret.pesos, C, N)
        IN  /\ C > 0
            /\ RatEq(ret.tc_medio, Rat(N, C))
            /\ s # NaN /\ s >= 0
            /\ s * s * C * C * C <= 100 * V
            /\ 100 * V < (s + 2) * (s + 2) * C * C * C
            /\ intervalo_confianca # None
            /\ RatEq(intervalo_confianca.inf, Rat(10 * N - 2 * s * C, 10 * C))
            /\ RatEq(intervalo_confianca.sup, Rat(10 * N + 2 * s * C, 10 * C))
            /\ tc_estimado = ret.tc_medio

\* the interval is centred on the estimate: (tc - w, tc + w) for some w >= 0,
\* or NaN on both sides of a NaN estimate
BandaEmTornoDe(intervalo, tc) ==
    IF RatNaN(tc) THEN RatNaN(intervalo.inf) /\ RatNaN(intervalo.sup)
    ELSE /\ intervalo.inf.den = intervalo.sup.den
         /\ intervalo.inf.den > 0
         /\ intervalo.inf.num <= intervalo.sup.num
         /\ RatEq(Rat(intervalo.inf.num + intervalo.sup.num, intervalo.inf.den),
                  Rat(2 * tc.num, tc.den))

\* C26: an estimar_multiplos_metodos call that raises because all methods
\* failed leaves tc_estimado and intervalo_confianca as they were, a successful
\* call replaces both with its tc_medio and its (tc_medio - 2 tc_std,
\* tc_medio + 2 tc_std); the queries change neither and answer from the tc_medio
\* of the most recent successful call, and the stored interval is always a
\* band around the stored tc_estimado.
C26_EstimativaMaisRecenteBemSucedida ==
    [][ /\ (ret'.op = "estimar_multiplos_metodos" /\ ret'.raise) =>
              /\ ret'.erro = "ValueError"
              /\ tc_estimado' = tc_estimado
              /\ intervalo_confianca' = intervalo_confianca
        /\ (ret'.op = "estimar_multiplos_metodos" /\ ~ret'.raise) =>
              /\ tc_estimado' = ret'.tc_medio
              /\ intervalo_confianca' = IntervaloConfianca(ret'.tc_medio, ret'.tc_std)
        /\ (ret'.op \in {"dias_ate_crise", "nivel_urgencia"}) =>
              /\ tc_estimado' = tc_estimado
              /\ intervalo_confianca' = intervalo_confianca
              /\ ret'.raise <=> (ultimo_tc_medio = None)
              /\ (~ret'.raise /\ ret'.op = "dias_ate_crise") =>
                    ret'.valor = RatSubInt(ultimo_tc_medio, ret'.tempo_atual)
              /\ (~ret'.raise /\ ret'.op = "nivel_urgencia") =>
                    ret'.dias = RatSubInt(ultimo_tc_medio, ret'.tempo_atual)
        /\ tc_estimado' = ultimo_tc_medio'
        /\ (tc_estimado' = None) <=> (intervalo_confianca' = None)
        /\ tc_estimado' # None => BandaEmTornoDe(intervalo_confianca', tc_estimado')
      ]_vars

\* C26 witness: a call in which all methods failed has raised on an instance
\* that holds the estimate and a band of positive width of an earlier call
C26_Witness ==
    /\ EstimarRetornou
    /\ ret.raise
    /\ tc_estimado # None
    /\ tc_estimado = ultimo_tc_medio
    /\ ~RatNaN(tc_estimado)
    /\ intervalo_confianca.inf.num < intervalo_confianca.sup.num

\* the smallest and the largest surviving estimate of the last call
MenorEstimativa ==
    CHOOSE x \in {ret.estimativas[m] : m \in DOMAIN ret.estimativas} :
        \A m \in DOMAIN ret.estimativas : x <= ret.estimativas[m]
MaiorEstimativa ==
    CHOOSE x \in {ret.estimativas[m] : m \in DOMAIN ret.estimativas} :
        \A m \in DOMAIN ret.estimativas : x >= ret.estimativas[m]

\* C30: when exactly one sub-estimator survives, with a positive confidence,
\* tc_medio is its estimate, tc_std is 0 and the interval is the single point
\* tc_medio; with several survivors of non-negative confidence and positive
\* total, tc_medio lies between the smallest and the largest surviving
\* estimate and tc_std (in tenths) is at most their range.
C30_ConsensoDentroDasEstimativas ==
    (EstimarRetornou /\ ~ret.raise) =>
        /\ (\E m \in Metodos : DOMAIN ret.estimativas = {m} /\ ret.pesos[m] > 0) =>
              /\ RatEq(ret.tc_medio, Rat(MenorEstimativa, 1))
              /\ ret.tc_std = 0
              /\ RatEq(intervalo_confianca.inf, ret.tc_medio)
              /\ RatEq(intervalo_confianca.sup, ret.tc_medio)
        /\ (/\ Cardinality(DOMAIN ret.estimativas) > 1
            /\ \A m \in DOMAIN ret.pesos : ret.pesos[m] >= 0
            /\ SomaPesos(ret.pesos) > 0) =>
              /\ RatGe(ret.tc_medio, MenorEstimativa)
              /\ RatLe(ret.tc_medio, MaiorEstimativa)
              /\ ret.tc_std # NaN
              /\ 0 <= ret.tc_std
              /\ ret.tc_std <= 10 * (MaiorEstimativa - MenorEstimativa)

\* C30 witness: three survivors with different estimates, a consensus strictly
\* between the extremes and a positive tc_std
C30_Witness ==
    /\ EstimarRetornou
    /\ ~ret.raise
    /\ Cardinality(DOMAIN ret.estimativas) = 3
    /\ SomaPesos(ret.pesos) > 0
    /\ RatGt(ret.tc_medio, MenorEstimativa)
    /\ RatLt(ret.tc_medio, MaiorEstimativa)
    /\ ret.tc_std > 0

-----------------------------------------------------------------------------
(* Claims about _calcular_probabilidade_crise                              *)

DuasSondas ==
    /\ sonda.op = "_calcular_probabilidade_crise"
    /\ sonda_ant.op = "_calcular_probabilidade_crise"
    /\ sonda.dias_ate_tc = sonda_ant.dias_ate_tc

\* C5 (as claimed): for every fixed days_until_tc > 0, below and above the
\* 30-unit horizon, the probability does not decrease when sigma decreases.
C5_MonotoniaQualquerDia ==
    (DuasSondas /\ sonda.dias_ate_tc > 0 /\ sonda.incerteza <= sonda_ant.incerteza)
        => sonda.probabilidade >= sonda_ant.probabilidade

\* C5 (amended): for every fixed days_until_tc with 0 < d <= 30 (tc within
\* the lookout horizon) the probability does not decrease when sigma
\* decreases.
C5_MonotoniaDentroDoHorizonte ==
    (/\ DuasSondas
     /\ sonda.dias_ate_tc > 0
     /\ sonda.dias_ate_tc <= HorizonteCrise
     /\ sonda.incerteza <= sonda_ant.incerteza)
        => sonda.probabilidade >= sonda_ant.probabilidade

\* C5 witness: d = 10, a smaller sigma and a strictly larger probability
C5_Witness ==
    /\ DuasSondas
    /\ sonda.dias_ate_tc = 10
    /\ sonda.incerteza < sonda_ant.incerteza
    /\ sonda.probabilidade > sonda_ant.probabilidade

-----------------------------------------------------------------------------
(* Markov regime-switching filter: numbers                                 *)
(*                                                                         *)
(*  - an observation, a mean: integer, one unit = 10^-3;                   *)
(*  - a variance: integer, one unit = 10^-6 (the floor of line 129 is 1);  *)
(*  - a probability or a density: a non-negative double, modelled as the   *)
(*    decimal floating-point number [m, e] = m * 10^e with                 *)
(*    1000 <= m <= 9999, results truncated to four digits; FZero is 0.0    *)
(*    and FNaN is NaN.  A result below 10^-324 underflows to 0.0 as a      *)
(*    double does;                                                         *)
(*  - a log-likelihood: integer, one unit = 10^-3, or NaN.                 *)

FZero == [m |-> 0, e |-> 0]
FNaN == [m |-> -1, e |-> 0]
FUm == [m |-> 1000, e |-> -3]
Epsilon == [m |-> 1000, e |-> -13]      \* the 1e-10 of the regularised divisions

FEhNaN(a) == a.m = -1
FEhZero(a) == a.m = 0

RECURSIVE FNorm(_, _)
\* the double nearest below m * 10^e (m >= 0)
FNorm(m, e) ==
    IF m = 0 THEN FZero
    ELSE IF m >= 10000 THEN FNorm(m \div 10, e + 1)
    ELSE IF m < 1000 THEN FNorm(m * 10, e - 1)
    ELSE IF e < -327 THEN FZero
    ELSE [m |-> m, e |-> e]

FMul(a, b) ==
    IF FEhNaN(a) \/ FEhNaN(b) THEN FNaN
    ELSE IF FEhZero(a) \/ FEhZero(b) THEN FZero
    ELSE FNorm(a.m * b.m, a.e + b.e)

\* a / b.  The only zero denominators the filter can meet are sums of the
\* non-negative numerators they divide, so x / 0 is always 0 / 0.
FDiv(a, b) ==
    IF FEhNaN(a) \/ FEhNaN(b) \/ FEhZero(b) THEN FNaN
    ELSE IF FEhZero(a) THEN FZero
    ELSE FNorm((a.m * 10000) \div b.m, a.e - b.e - 4)

FAdd(a, b) ==
    IF FEhNaN(a) \/ FEhNaN(b) THEN FNaN
    ELSE IF FEhZero(a) THEN b
    ELSE IF FEhZero(b) THEN a
    ELSE LET hi == IF a.e >= b.e THEN a ELSE b
             lo == IF a.e >= b.e THEN b ELSE a
             d == hi.e - lo.e
         IN  IF d > 4 THEN hi ELSE FNorm(hi.m + (lo.m \div (10 ^ d)), hi.e)

RECURSIVE FSoma(_)
\* np.sum of a row, accumulated from the first element on
FSoma(linha) ==
    IF Len(linha) = 0 THEN FZero
    ELSE FAdd(FSoma(SubSeq(linha, 1, Len(linha) - 1)), linha[Len(linha)])

\* a double in [0, 1 + tolerance] as an integer number of 1/10000 (NaN kept)
FParaFixo(a) ==
    IF FEhNaN(a) THEN NaN
    ELSE IF FEhZero(a) THEN 0
    ELSE IF a.e + 4 >= 0 THEN a.m * (10 ^ (a.e + 4))
    ELSE IF a.e + 4 < -4 THEN 0
    ELSE a.m \div (10 ^ (-(a.e + 4)))

\* 1000 * ln(1 + f / 1000) for 0 <= f < 1000
Ln1p(f) == (693 * f + (235 * f * (1000 - f)) \div 1000) \div 1000

\* 1000 * ln(a) of a positive double, NaN for NaN
FLn(a) ==
    IF FEhNaN(a) THEN NaN
    ELSE LET k == IF a.m >= 8000 THEN 3 ELSE IF a.m >= 4000 THEN 2
                  ELSE IF a.m >= 2000 THEN 1 ELSE 0
         IN  6908 + 693 * k + Ln1p((a.m \div (2 ^ k)) - 1000) + 2303 * a.e

\* 1000 * 10^(-d/10) and 1000 * 10^(-d/100) for a digit d
DezTabDecimos == <<1000, 794, 631, 501, 398, 316, 251, 200, 158, 126>>
DezTabCentesimos == <<1000, 977, 955, 933, 912, 891, 871, 851, 832, 813>>

\* scipy.stats.norm.pdf(x, media, np.sqrt(variancia)): NaN when the scale is
\* 0 or NaN, 0.0 when exp underflows
NormPdf(x, media, variancia) ==
    IF media = NaN \/ variancia = NaN \/ variancia = 0 THEN FNaN
    ELSE LET d == x - media
             \* (d^2 / (2 variancia)) * log10(e), in hundredths
             v == (d * d * 4343) \div (200 * variancia)
             expo == FMul(FNorm(DezTabDecimos[((v % 100) \div 10) + 1], -3 - (v \div 100)),
                          FNorm(DezTabCentesimos[(v % 10) + 1], -3))
             \* sqrt(variancia) in units of 10^-5, times sqrt(2 pi)
             escala == FNorm(Isqrt(variancia * 10000) * 2507, -8)
         IN  FDiv(expo, escala)

-----------------------------------------------------------------------------
(* Markov regime-switching filter: ajustar (EM)                            *)

\* the array f[1], ..., f[n]
Tab(n, f) ==
    LET RECURSIVE Ate(_)
        Ate(i) == IF i <= 0 THEN <<>> ELSE Append(Ate(i - 1), f[i])
    IN  Ate(n)

RECURSIVE SomaSeq(_)
\* sum of fixed-point values, NaN if one of them is NaN
SomaSeq(xs) ==
    IF Len(xs) = 0 THEN 0
    ELSE LET resto == SomaSeq(Tail(xs))
         IN  IF resto = NaN \/ Head(xs) = NaN THEN NaN ELSE resto + Head(xs)

RECURSIVE Inserir(_, _)
Inserir(x, xs) ==
    IF Len(xs) = 0 THEN <<x>>
    ELSE IF x <= Head(xs) THEN <<x>> \o xs
    ELSE <<Head(xs)>> \o Inserir(x, Tail(xs))

RECURSIVE Ordenar(_)
Ordenar(xs) == IF Len(xs) = 0 THEN <<>> ELSE Inserir(Head(xs), Ordenar(Tail(xs)))

\* np.linspace(10, 90, k)
Linspace(k) == Tab(k, [j \in 1..k |-> IF k = 1 THEN 10 ELSE 10 + (80 * (j - 1)) \div (k - 1)])

\* np.percentile(dados, q): linear interpolation between order statistics
Percentil(dados, q) ==
    LET xs == Ordenar(dados)
        h == (Len(dados) - 1) * q
        i == (h \div 100) + 1
    IN  IF h % 100 = 0 THEN xs[i]
        ELSE xs[i] + ((h % 100) * (xs[i + 1] - xs[i])) \div 100

\* np.var(dados): the population variance
NpVar(dados) ==
    LET n == Len(dados)
        s1 == SomaSeq(dados)
        s2 == SomaSeq(Tab(n, [t \in 1..n |-> dados[t] * dados[t]]))
    IN  (n * s2 - s1 * s1) \div (n * n)

\* norm.pdf(dados[t], medias[j], sqrt(variancias[j])) for every t and j
Emissoes(dados, medias, variancias, k) ==
    Tab(Len(dados), [t \in 1..(Len(dados)) |-> Tab(k, [j \in 1..k |-> NormPdf(dados[t], medias[j], variancias[j])])])

\* linha / soma, element by element
DividirPor(linha, soma) == Tab(Len(linha), [j \in 1..(Len(linha)) |-> FDiv(linha[j], soma)])

\* linha / (np.sum(linha) + 1e-10)
Normalizar(linha) == DividirPor(linha, FAdd(FSoma(linha), Epsilon))

\* alpha[0]: the division by np.sum(alpha[0]) is not regularised
Alpha0(pi, b, k) == DividirPor(Tab(k, [j \in 1..k |-> FMul(pi[j], b[j])]), FSoma(Tab(k, [j \in 1..k |-> FMul(pi[j], b[j])])))

\* alpha[t] from alpha[t-1]
AlphaT(anterior, P, b, k) ==
    Normalizar(Tab(k, [j \in 1..k |->
        FMul(FSoma(Tab(k, [i \in 1..k |-> FMul(anterior[i], P[i][j])])), b[j])]))

RECURSIVE Forward(_, _, _, _)
\* the forward pass; alphas holds the rows computed so far
Forward(alphas, P, B, k) ==
    IF Len(alphas) = Len(B) THEN alphas
    ELSE Forward(Append(alphas, AlphaT(alphas[Len(alphas)], P, B[Len(alphas) + 1], k)),
                 P, B, k)

\* beta[t] from beta[t+1]; b is the emission row of t+1
BetaT(proximo, P, b, k) ==
    Normalizar(Tab(k, [i \in 1..k |->
        FSoma(Tab(k, [j \in 1..k |-> FMul(FMul(P[i][j], b[j]), proximo[j])]))]))

RECURSIVE Backward(_, _, _, _)
\* the backward pass; betas holds the rows of the last Len(betas) time steps
Backward(betas, P, B, k) ==
    IF Len(betas) = Len(B) THEN betas
    ELSE Backward(<<BetaT(betas[1], P, B[Len(B) - Len(betas) + 1], k)>> \o betas,
                  P, B, k)

\* gamma = alpha * beta, each row divided by its sum + 1e-10
Gamma(alpha, beta, k) ==
    Tab(Len(alpha), [t \in 1..(Len(alpha)) |->
        Normalizar(Tab(k, [j \in 1..k |-> FMul(alpha[t][j], beta[t][j])]))])

\* xi[t, i, j] for t = 0 .. n-2
Xi(alpha, beta, P, B, k) ==
    Tab(Len(alpha) - 1, [t \in 1..(Len(alpha) - 1) |-> Tab(k, [i \in 1..k |-> Tab(k, [j \in 1..k |->
        FDiv(FMul(FMul(FMul(alpha[t][i], P[i][j]), B[t + 1][j]), beta[t + 1][j]),
             FAdd(FSoma(alpha[t]), Epsilon))])])])

\* sum(w * valores) / sum(w) for fixed-point weights w, rounded to the
\* nearest unit
MediaFixa(w, valores) ==
    IF SomaSeq(Tab(Len(w), [t \in 1..(Len(w)) |-> IF valores[t] = NaN THEN NaN ELSE w[t] * valores[t]])) = NaN
    THEN NaN
    ELSE (2 * SomaSeq(Tab(Len(w), [t \in 1..(Len(w)) |-> w[t] * valores[t]])) + SomaSeq(w))
            \div (2 * SomaSeq(w))

\* np.sum(pesos * valores) / np.sum(pesos), not regularised: 0/0 is NaN
MediaPonderada(pesos, valores) ==
    IF FEhNaN(FSoma(pesos)) \/ FEhZero(FSoma(pesos)) THEN NaN
    ELSE MediaFixa(Tab(Len(pesos), [t \in 1..(Len(pesos)) |-> FParaFixo(FDiv(pesos[t], FSoma(pesos)))]),
                   valores)

Coluna(matriz, j) == Tab(Len(matriz), [t \in 1..(Len(matriz)) |-> matriz[t][j]])

\* M-step: the new means
NovasMedias(gamma, dados, k) ==
    Tab(k, [j \in 1..k |-> MediaPonderada(Coluna(gamma, j), dados)])

\* max(v, 1e-6); max(nan, 1e-6) is nan
PisoVariancia(v) == IF v = NaN THEN NaN ELSE Max(v, 1)

\* M-step: the new variances around the new means
NovasVariancias(gamma, dados, medias, k) ==
    Tab(k, [j \in 1..k |->
        PisoVariancia(MediaPonderada(Coluna(gamma, j),
            Tab(Len(dados), [t \in 1..(Len(dados)) |->
                IF medias[j] = NaN THEN NaN
                ELSE (dados[t] - medias[j]) * (dados[t] - medias[j])])))])

\* np.sum(xi[:, i, j]) / (np.sum(gamma[:-1, i]) + 1e-10)
MatrizBruta(xi, gamma, k) ==
    Tab(k, [i \in 1..k |-> Tab(k, [j \in 1..k |->
        FDiv(FSoma(Tab(Len(gamma) - 1, [t \in 1..(Len(gamma) - 1) |-> xi[t][i][j]])),
             FAdd(FSoma(Tab(Len(gamma) - 1, [t \in 1..(Len(gamma) - 1) |-> gamma[t][i]])), Epsilon))])])

\* M-step: the new transition matrix, its rows divided by their sum + 1e-10
NovaMatriz(xi, gamma, k) ==
    Tab(k, [i \in 1..k |-> Normalizar(MatrizBruta(xi, gamma, k)[i])])

\* the log-likelihood of lines 143-149
LogVero(gamma, B, k) ==
    SomaSeq(Tab(Len(gamma), [t \in 1..(Len(gamma)) |->
        FLn(FAdd(FSoma(Tab(k, [j \in 1..k |-> FMul(gamma[t][j], B[t][j])])), Epsilon))]))

MenosInf == -888888     \* log_vero_anterior = -np.inf

\* mutant: the change is compared with zero, so the test never passes
NuncaConvergiu(log_vero, log_vero_anterior, tol) ==
    Abs(log_vero - log_vero_anterior) < 0

\* abs(log_vero - log_vero_anterior) < tol
Convergiu(log_vero, log_vero_anterior, tol) ==
    /\ log_vero # NaN
    /\ log_vero_anterior # NaN
    /\ log_vero_anterior # MenosInf
    /\ Abs(log_vero - log_vero_anterior) < tol

\* E-step of one iteration: alpha, gamma and xi under the current parameters
PassoEDe(alpha, beta, P, B, k) ==
    [alpha |-> alpha, gamma |-> Gamma(alpha, beta, k), xi |-> Xi(alpha, beta, P, B, k)]

PassoECom(B, P, pi, k) ==
    PassoEDe(Forward(<<Alpha0(pi, B[1], k)>>, P, B, k),
             Backward(<<Tab(k, [j \in 1..k |-> FUm])>>, P, B, k), P, B, k)

PassoE(dados, k, medias, variancias, P, pi) ==
    PassoECom(Emissoes(dados, medias, variancias, k), P, pi, k)

\* M-step of one iteration and the log-likelihood under the new means and
\* variances
PassoMDe(e, dados, k, medias, variancias) ==
    [medias |-> medias, variancias |-> variancias,
     matriz_transicao |-> NovaMatriz(e.xi, e.gamma, k),
     prob_inicial |-> e.gamma[1],
     log_verossimilhanca |-> LogVero(e.gamma, Emissoes(dados, medias, variancias, k), k)]

PassoMCom(e, dados, k, medias) ==
    PassoMDe(e, dados, k, medias, NovasVariancias(e.gamma, dados, medias, k))

PassoM(e, dados, k) == PassoMCom(e, dados, k, NovasMedias(e.gamma, dados, k))

RECURSIVE IterarEM(_, _, _, _, _, _, _)
RECURSIVE AposPassoE(_, _, _, _, _, _, _)
RECURSIVE AposPassoM(_, _, _, _, _, _, _, _)
\* the loop body for iteracao (0-based) and the iterations after it, from the
\* parameters p (medias, variancias, matriz_transicao, prob_inicial); the
\* value is what ajustar stores once the loop is left
IterarEM(iteracao, dados, k, max_iter, tol, p, log_vero_anterior) ==
    AposPassoE(iteracao, dados, k, max_iter, tol, log_vero_anterior,
               PassoE(dados, k, p.medias, p.variancias, p.matriz_transicao, p.prob_inicial))

AposPassoE(iteracao, dados, k, max_iter, tol, log_vero_anterior, e) ==
    AposPassoM(iteracao, dados, k, max_iter, tol, log_vero_anterior, e, PassoM(e, dados, k))

AposPassoM(iteracao, dados, k, max_iter, tol, log_vero_anterior, e, m) ==
    IF Convergiu(m.log_verossimilhanca, log_vero_anterior, tol) \/ iteracao + 1 = max_iter
    THEN [parametros |-> [medias |-> m.medias, variancias |-> m.variancias,
                          matriz_transicao |-> m.matriz_transicao,
                          prob_inicial |-> m.prob_inicial,
                          log_verossimilhanca |-> m.log_verossimilhanca,
                          n_iteracoes |-> iteracao + 1],
          alpha |-> e.alpha, gamma |-> e.gamma]
    ELSE IterarEM(iteracao + 1, dados, k, max_iter, tol, m, m.log_verossimilhanca)

\* the parameters before the first iteration (lines 55-62)
ParametrosIniciais(dados, k) ==
    [medias |-> Tab(k, [j \in 1..k |-> Percentil(dados, Linspace(k)[j])]),
     variancias |-> Tab(k, [j \in 1..k |-> NpVar(dados)]),
     matriz_transicao |-> Tab(k, [i \in 1..k |-> Tab(k, [j \in 1..k |-> FDiv(FUm, FNorm(k, 0))])]),
     prob_inicial |-> Tab(k, [j \in 1..k |-> FDiv(FUm, FNorm(k, 0))])]

\* ajustar(dados, max_iter, tol) on a model of k regimes: what it raises, or
\* what it stores and returns.  With no observation dados[0] raises
\* IndexError; with max_iter = 0 the loop body never runs and line 163 reads
\* the unassigned log_vero.
Ajustar(k, dados, max_iter, tol) ==
    IF Len(dados) = 0 THEN [raise |-> TRUE, erro |-> "IndexError"]
    ELSE IF max_iter = 0 THEN [raise |-> TRUE, erro |-> "UnboundLocalError"]
    ELSE [raise |-> FALSE,
          fim |-> IterarEM(0, dados, k, max_iter, tol, ParametrosIniciais(dados, k), MenosInf)]

-----------------------------------------------------------------------------
(* The LPPL analyser as a state machine                                    *)

\* series given to the analyser: an identity, the first and the last time
SeriesLPPL ==
    { [id |-> 1, t0 |-> 0, tN |-> 100], [id |-> 2, t0 |-> 50, tN |-> 250],
      [id |-> 3, t0 |-> 1000, tN |-> 1100] }

\* restricao_tc given to the constructor (normalised time, hundredths)
Restricoes ==
    { None, [tc_min |-> 50, tc_max |-> 90], [tc_min |-> 100, tc_max |-> 150],
      [tc_min |-> 110, tc_max |-> 200] }

\* points of the tc bounds an optimiser may return: both ends and the middle
TcCandidatos(lim) == { lim[1], (lim[1] + lim[2]) \div 2, lim[2] }

\* the other fitted parameters (inside their bounds), the residual and the
\* converged flag
OutrosParametros ==
    { [A |-> 4, B |-> -1, m |-> 50, omega |-> 6, phi |-> 0, fun |-> 1, success |-> TRUE],
      [A |-> 5, B |-> 10, m |-> 1, omega |-> 20, phi |-> 3, fun |-> 9, success |-> FALSE] }

\* resultado of differential_evolution / minimize under the bounds: x lies
\* inside the bounds with either method
Resultados(restricao) ==
    { [A |-> o.A, B |-> o.B, tc |-> tc, m |-> o.m, omega |-> o.omega, phi |-> o.phi,
       fun |-> o.fun, success |-> o.success] :
         o \in OutrosParametros, tc \in TcCandidatos(LimitesTc(restricao)) }


\* ajustar_lppl(tempos, precos, metodo)
AjustarLppl ==
    \E tempos \in SeriesLPPL, metodo \in {"evolution", "gradient"} :
      \E resultado \in Resultados(restricao_tc) :
        /\ parametros_otimos' = ParametrosOtimos(tempos, resultado)
        /\ ret_lppl' = [op |-> "ajustar_lppl", tempos |-> tempos, metodo |-> metodo,
                        parametros |-> ParametrosOtimos(tempos, resultado)]
        /\ UNCHANGED <<restricao_tc, varsETC, varsSonda, varsMS, varsConc>>

\* times asked of prever: times of the fitted series and times after them
TemposFuturos == {0, 1, 50, 100, 120, 150, 250, 260, 1000, 1050, 1100, 1120}

\* prever(tempos_futuros)
PreverLppl ==
    \E tempo \in TemposFuturos :
        /\ ret_lppl' = [op |-> "prever", tempo |-> tempo] @@ Prever(parametros_otimos, tempo)
        /\ UNCHANGED <<restricao_tc, parametros_otimos, varsETC, varsSonda, varsMS, varsConc>>

\* r_quadrado = 1 - ss_res / ss_tot of the given prices against the curve, in
\* thousandths: below zero for a curve worse than the mean of the prices
RQuadrados == {-500, 400, 950}

\* np.cos(phi) in thousandths, at the values of phi the fits deliver
CosMil(phi) == IF phi = 0 THEN 1000 ELSE -990

\* the criteria of calcular_confianca_lppl on params (m and t_c_norm in
\* hundredths) and the confidence np.clip(confianca_base, 0, 1) in thousandths
CalcularConfianca(params, r_quadrado) ==
    LET m_valido == 10 < params.m /\ params.m < 90
        omega_valido == 3 < params.omega /\ params.omega < 15
        tc_valido == params.t_c_norm > TcEscala
        parametros_validos == m_valido /\ omega_valido /\ tc_valido
        amplitude_relativa == Abs(params.B * CosMil(params.phi)) \div Abs(params.A)
        componente_significativa == amplitude_relativa > 50
        base1 == IF parametros_validos THEN r_quadrado ELSE (r_quadrado * 5) \div 10
        base2 == IF componente_significativa THEN base1 ELSE (base1 * 7) \div 10
    IN  [confianca |-> Clip(base2, 0, 1000),
         metricas |-> [r_quadrado |-> r_quadrado, m_valido |-> m_valido,
                       omega_valido |-> omega_valido, tc_valido |-> tc_valido,
                       amplitude_relativa |-> amplitude_relativa,
                       confianca_final |-> Clip(base2, 0, 1000)]]

\* calcular_confianca_lppl(tempos, precos): fits first only when
\* parametros_otimos is None, then judges whatever parametros_otimos holds
\* against the given series (t_norm is taken from the given tempos)
CalcularConfiancaLppl ==
    \E tempos \in SeriesLPPL, r_quadrado \in RQuadrados :
      \E resultado \in Resultados(restricao_tc) :
        \E params \in {IF parametros_otimos = None
                        THEN ParametrosOtimos(tempos, resultado)
                        ELSE parametros_otimos} :
            /\ parametros_otimos' = params
            /\ ret_lppl' = [op |-> "calcular_confianca_lppl", tempos |-> tempos,
                            params |-> params,
                            t_norm |-> <<TNorm(tempos, tempos.t0), TNorm(tempos, tempos.tN)>>]
                           @@ CalcularConfianca(params, r_quadrado)
            /\ UNCHANGED <<restricao_tc, varsETC, varsSonda, varsMS, varsConc>>

NextLPPL == AjustarLppl \/ PreverLppl \/ CalcularConfiancaLppl

InitLPPL == Construidos(HorizonteFixo, FiltroDeMain, Restricoes, RegimesPadrao, SemChamadas)

SpecLPPL == InitLPPL /\ [][NextLPPL]_vars

-----------------------------------------------------------------------------
(* Markov regime-switching filter: the queries                             *)

\* v @ P
VetorMatriz(v, P) ==
    Tab(Len(v), [j \in 1..(Len(v)) |-> FSoma(Tab(Len(v), [i \in 1..(Len(v)) |-> FMul(v[i], P[i][j])]))])

\* mutant: one multiplication whatever the horizon
ProjetarUmPasso(v, P, h) == VetorMatriz(v, P)

RECURSIVE Projetar(_, _, _)
\* prob_futuro after h right-multiplications by P
Projetar(v, P, h) == IF h = 0 THEN v ELSE Projetar(VetorMatriz(v, P), P, h - 1)

\* prever_regime(dados, horizonte): both branches on dados read the last
\* filtered row
PreverRegime(params, filtradas, dados, horizonte) ==
    IF params = None THEN [raise |-> TRUE, erro |-> "ValueError"]
    ELSE [raise |-> FALSE,
          valor |-> Projetar(filtradas[Len(filtradas)], params.matriz_transicao, horizonte)]

\* the sort key of np.argsort: NaN sorts after every number
ChaveOrdem(m) == IF m = NaN THEN 1000000 ELSE m

RECURSIVE InserirIndice(_, _, _)
InserirIndice(i, ordem, medias) ==
    IF Len(ordem) = 0 THEN <<i>>
    ELSE IF ChaveOrdem(medias[i]) < ChaveOrdem(medias[Head(ordem)]) THEN <<i>> \o ordem
    ELSE <<Head(ordem)>> \o InserirIndice(i, Tail(ordem), medias)

RECURSIVE ArgsortAte(_, _)
ArgsortAte(i, medias) ==
    IF i = 0 THEN <<>> ELSE InserirIndice(i, ArgsortAte(i - 1, medias), medias)

\* mutant: the regimes taken in index order
ArgsortIdentidade(medias) == Tab(Len(medias), [i \in 1..Len(medias) |-> i])

\* np.argsort(medias): the regime indices in ascending order of mean
Argsort(medias) == ArgsortAte(Len(medias), medias)

\* mutant: the K = 2 labels chosen without looking at the sign of the mean
RotuloSemSinal(k, pos, menor_media) ==
    IF k = 2 THEN <<"BAIXA_VOLATILIDADE", "ALTA_VOLATILIDADE">>[pos]
    ELSE IF k = 3 THEN <<"CRISE", "NORMAL", "BOLHA">>[pos]
    ELSE "REGIME_" \o ToString(pos)

\* the label given to the regime at position pos of ordem
Rotulo(k, pos, menor_media) ==
    IF k = 2
    THEN IF menor_media # NaN /\ menor_media < 0
         THEN <<"CRISE", "NORMAL">>[pos]
         ELSE <<"BAIXA_VOLATILIDADE", "ALTA_VOLATILIDADE">>[pos]
    ELSE IF k = 3 THEN <<"CRISE", "NORMAL", "BOLHA">>[pos]
    ELSE "REGIME_" \o ToString(pos)

\* the dict classificacao as the array of labels by regime index
Classificacao(k, medias, ordem) ==
    Tab(Len(medias), [idx \in 1..(Len(medias)) |->
        Rotulo(k, CHOOSE pos \in 1..Len(ordem) : ordem[pos] = idx, medias[ordem[1]])])

\* classificar_regimes()
ClassificarRegimes(k, params) ==
    IF params = None THEN [raise |-> TRUE, erro |-> "ValueError"]
    ELSE [raise |-> FALSE,
          valor |-> Classificacao(k, params.medias, Argsort(params.medias))]

\* 1 - p for a double p <= 1
UmMenos(p) ==
    IF FEhNaN(p) THEN FNaN
    ELSE IF FEhZero(p) THEN FUm
    ELSE IF p.e < -8 THEN FUm
    ELSE FNorm(10000 - FParaFixo(p), -4)

\* 1 / (1 - p + 1e-10), kept exactly as its denominator in two limbs:
\* um_menos_p is 1 - p in units of 1e-4 and eps the regularisation in units
\* of 1e-10, so that the value is 1 / (um_menos_p * 1e-4 + eps * 1e-10); aprox
\* is the same value as a double of the filter's precision
Duracao(p) ==
    IF FEhNaN(p) THEN [um_menos_p |-> NaN, eps |-> NaN, aprox |-> FNaN]
    ELSE [um_menos_p |-> 10000 - FParaFixo(p), eps |-> 1,
          aprox |-> FDiv(FUm, FAdd(UmMenos(p), Epsilon))]

\* duracao_esperada(): 1 / (1 - np.diag(P) + 1e-10)
DuracaoEsperada(params) ==
    IF params = None THEN [raise |-> TRUE, erro |-> "ValueError"]
    ELSE [raise |-> FALSE,
          valor |-> Tab(Len(params.matriz_transicao),
                        [i \in 1..Len(params.matriz_transicao) |->
                            Duracao(params.matriz_transicao[i][i])])]

\* FiltroHamilton.filtrar(dados)
Filtrar(params, filtradas, dados) ==
    IF params = None THEN [raise |-> TRUE, erro |-> "ValueError"]
    ELSE [raise |-> FALSE, valor |-> filtradas]

\* FiltroHamilton.suavizar(dados): no check of the model's parametros
Suavizar(params, suavizadas, dados) == [raise |-> FALSE, valor |-> suavizadas]

-----------------------------------------------------------------------------
(* The regime model and its FiltroHamilton as a state machine              *)

\* series given to ajustar: none, one observation, a constant series, two
\* levels, three levels
DadosMS ==
    { <<>>, <<5>>, <<10, 10, 10>>, <<0, 0, 100>>, <<0, 100>>, <<-50, 20, 60>> }

\* series given to prever_regime, filtrar and suavizar
DadosConsulta == { <<0, 100>>, <<7, 7, 7, 7>> }

TolPadrao == 1          \* tol = 1e-4: below the unit of the log-likelihood
TolLarga == 5000        \* tol = 5.0

\* max_iter and tol given to ajustar
IteracoesMS == {0, 1, 2, MaxIter}
ToleranciasMS == {TolPadrao, TolLarga}

\* ajustar is a function of n_regimes and its arguments: the outcome of every
\* call the model draws, computed once
Ajustes ==
    { [k |-> k, dados |-> dados, max_iter |-> max_iter, tol |-> tol,
       r |-> Ajustar(k, dados, max_iter, tol)] :
      k \in 1..MaxRegimes, dados \in DadosMS, max_iter \in IteracoesMS,
      tol \in ToleranciasMS }

\* the outcome of ajustar(dados, max_iter, tol) on a model of k regimes
AjusteDe(k, dados, max_iter, tol) ==
    (CHOOSE a \in Ajustes :
        a.k = k /\ a.dados = dados /\ a.max_iter = max_iter /\ a.tol = tol).r

\* mutant: ajustar writes its results into the arrays of the dict it returned
\* before
ObjetoReescrito(antigo, novo) == novo

\* the contents of a dict returned earlier, after a later ajustar has produced
\* novo: medias, variancias, P and gamma are arrays created inside the call
\* and parametros is assigned a new dict, so the earlier one is not written
ObjetoAposAjuste(antigo, novo) == antigo

\* the dict the caller holds, after a later ajustar has produced novo
DevolvidoApos(d, novo) ==
    IF d = None THEN None
    ELSE [orig |-> d.orig, agora |-> ObjetoAposAjuste(d.agora, novo)]

\* mutant: the three attributes are cleared when the call starts, so a call
\* that raises leaves them at None
AjustarMSReinicia ==
    \E dados \in DadosMS, max_iter \in IteracoesMS, tol \in ToleranciasMS :
      \E r \in {AjusteDe(n_regimes, dados, max_iter, tol)} :
        IF r.raise
        THEN /\ ret_ms' = [op |-> "ajustar", raise |-> TRUE, erro |-> r.erro]
             /\ parametros' = None
             /\ probabilidades_filtradas' = None
             /\ probabilidades_suavizadas' = None
             /\ UNCHANGED <<n_regimes, devolvido, varsETC, varsSonda, varsLPPL, varsConc>>
        ELSE /\ parametros' = r.fim.parametros
             /\ probabilidades_filtradas' = r.fim.alpha
             /\ probabilidades_suavizadas' = r.fim.gamma
             /\ ret_ms' = [op |-> "ajustar", raise |-> FALSE, dados |-> dados,
                           max_iter |-> max_iter, tol |-> tol,
                           valor |-> r.fim.parametros]
             /\ devolvido' \in { DevolvidoApos(devolvido, r.fim.parametros),
                                 [orig |-> r.fim.parametros, agora |-> r.fim.parametros] }
             /\ UNCHANGED <<n_regimes, varsETC, varsSonda, varsLPPL, varsConc>>

\* ajustar(dados, max_iter, tol): the caller keeps the dict it held or takes
\* the one returned
AjustarMS ==
    \E dados \in DadosMS, max_iter \in IteracoesMS, tol \in ToleranciasMS :
      \E r \in {AjusteDe(n_regimes, dados, max_iter, tol)} :
        IF r.raise
        THEN /\ ret_ms' = [op |-> "ajustar", raise |-> TRUE, erro |-> r.erro]
             /\ UNCHANGED <<n_regimes, parametros, probabilidades_filtradas,
                            probabilidades_suavizadas, devolvido,
                            varsETC, varsSonda, varsLPPL, varsConc>>
        ELSE /\ parametros' = r.fim.parametros
             /\ probabilidades_filtradas' = r.fim.alpha
             /\ probabilidades_suavizadas' = r.fim.gamma
             /\ ret_ms' = [op |-> "ajustar", raise |-> FALSE, dados |-> dados,
                           max_iter |-> max_iter, tol |-> tol,
                           valor |-> r.fim.parametros]
             /\ devolvido' \in { DevolvidoApos(devolvido, r.fim.parametros),
                                 [orig |-> r.fim.parametros, agora |-> r.fim.parametros] }
             /\ UNCHANGED <<n_regimes, varsETC, varsSonda, varsLPPL, varsConc>>

varsModeloMS == <<n_regimes, parametros, probabilidades_filtradas, probabilidades_suavizadas,
                  devolvido>>

PreverRegimeMS ==
    \E dados \in {None} \cup {[tipo |-> "array", valores |-> d] : d \in DadosConsulta},
       horizonte \in 0..MaxPassos :
        /\ ret_ms' = [op |-> "prever_regime", horizonte |-> horizonte] @@
                     PreverRegime(parametros, probabilidades_filtradas, dados, horizonte)
        /\ UNCHANGED <<varsModeloMS, varsETC, varsSonda, varsLPPL, varsConc>>

ClassificarRegimesMS ==
    /\ ret_ms' = [op |-> "classificar_regimes"] @@ ClassificarRegimes(n_regimes, parametros)
    /\ UNCHANGED <<varsModeloMS, varsETC, varsSonda, varsLPPL, varsConc>>

DuracaoEsperadaMS ==
    /\ ret_ms' = [op |-> "duracao_esperada"] @@ DuracaoEsperada(parametros)
    /\ UNCHANGED <<varsModeloMS, varsETC, varsSonda, varsLPPL, varsConc>>

FiltrarMS ==
    \E dados \in DadosConsulta :
        /\ ret_ms' = [op |-> "filtrar", dados |-> dados] @@
                     Filtrar(parametros, probabilidades_filtradas, dados)
        /\ UNCHANGED <<varsModeloMS, varsETC, varsSonda, varsLPPL, varsConc>>

SuavizarMS ==
    \E dados \in DadosConsulta :
        /\ ret_ms' = [op |-> "suavizar", dados |-> dados] @@
                     Suavizar(parametros, probabilidades_suavizadas, dados)
        /\ UNCHANGED <<varsModeloMS, varsETC, varsSonda, varsLPPL, varsConc>>

NextMS ==
    \/ AjustarMS
    \/ PreverRegimeMS
    \/ ClassificarRegimesMS
    \/ DuracaoEsperadaMS
    \/ FiltrarMS
    \/ SuavizarMS

InitMS == Construidos(HorizonteFixo, FiltroDeMain, RestricaoPadrao, 1..MaxRegimes, SemChamadas)

SpecMS == InitMS /\ [][NextMS]_vars

-----------------------------------------------------------------------------
(* Claims about the queries of the regime model                            *)

RECURSIVE Previsto(_, _, _)
\* the h-step forecast from v: v itself for h = 0, the (h - 1)-step forecast
\* times P otherwise
Previsto(v, P, h) == IF h = 0 THEN v ELSE VetorMatriz(Previsto(v, P, h - 1), P)

\* C17: a prever_regime(horizonte = h) call on a fitted model returns the last
\* row of probabilidades_filtradas for h = 0 and the (h - 1)-step result times
\* matriz_transicao for h > 0, and leaves parametros and both traces as they
\* were.
C17_PreverRegime ==
    [][ (ret_ms'.op = "prever_regime" /\ ~ret_ms'.raise) =>
            /\ parametros # None
            /\ ret_ms'.valor =
                   Previsto(probabilidades_filtradas[Len(probabilidades_filtradas)],
                            parametros.matriz_transicao, ret_ms'.horizonte)
            /\ (ret_ms'.horizonte = 0 =>
                   ret_ms'.valor = probabilidades_filtradas[Len(probabilidades_filtradas)])
            /\ parametros' = parametros
            /\ probabilidades_filtradas' = probabilidades_filtradas
            /\ probabilidades_suavizadas' = probabilidades_suavizadas ]_vars

\* C17 witness: a two-step forecast of a fitted model, free of NaN, that
\* differs from the last filtered row
C17_Witness ==
    /\ ret_ms.op = "prever_regime"
    /\ ~ret_ms.raise
    /\ ret_ms.horizonte = 2
    /\ \A j \in 1..Len(ret_ms.valor) : ~FEhNaN(ret_ms.valor[j])
    /\ ret_ms.valor # probabilidades_filtradas[Len(probabilidades_filtradas)]

-----------------------------------------------------------------------------
(* classificar_regimes as a function of n_regimes and the fitted means      *)

\* fitted means of k regimes: the levels 0, 10, ... shifted by c, in ascending
\* (d = 1) or descending (d = -1) order and rotated by r places; all equal;
\* and with a NaN in the first place
MediasDe(k) ==
    { Tab(k, [i \in 1..k |-> d * 10 * ((i + r) % k) + c]) :
          d \in {1, -1}, r \in 0..(k - 1), c \in {-25, 0, 5} }
    \cup { Tab(k, [i \in 1..k |-> c]) : c \in {-25, 5} }
    \cup { Tab(k, [i \in 1..k |-> IF i = 1 THEN NaN ELSE c - 10 * i]) : c \in {5, 45} }

\* a parametros dict with the given means
ParametrosCom(medias) ==
    [medias |-> medias,
     variancias |-> Tab(Len(medias), [j \in 1..Len(medias) |-> 1]),
     matriz_transicao |-> Tab(Len(medias), [i \in 1..Len(medias) |->
                              Tab(Len(medias), [j \in 1..Len(medias) |->
                                  FDiv(FUm, FNorm(Len(medias), 0))])]),
     prob_inicial |-> Tab(Len(medias), [j \in 1..Len(medias) |->
                          FDiv(FUm, FNorm(Len(medias), 0))]),
     log_verossimilhanca |-> 0,
     n_iteracoes |-> 1]

ClassificarSonda ==
    \E k \in 1..(MaxRegimes + 1) :
      \E medias \in MediasDe(k) :
        /\ sonda' = [op |-> "classificar_regimes", n_regimes |-> k, medias |-> medias] @@
                     ClassificarRegimes(k, ParametrosCom(medias))
        /\ sonda_ant' = sonda
        /\ UNCHANGED <<varsETC, varsLPPL, varsMS, varsConc>>

NextClassificar == ClassificarSonda

InitClassificar == Construidos(HorizonteFixo, FiltroDeMain, RestricaoPadrao, RegimesPadrao, SemChamadas)

SpecClassificar == InitClassificar /\ [][NextClassificar]_vars

\* regime a has a smaller fitted mean than regime b
MediaMenor(medias, a, b) ==
    medias[a] # NaN /\ medias[b] # NaN /\ medias[a] < medias[b]

ClassificouSonda(k) ==
    sonda.op = "classificar_regimes" /\ sonda.n_regimes = k /\ ~sonda.raise

\* C14 (as claimed): for K = 2 the lower-mean regime is labelled crisis when
\* its mean is negative and low-volatility otherwise, and the higher-mean
\* regime is labelled high-volatility.
C14_OutroAltaVolatilidade ==
    ClassificouSonda(2) =>
        \A lo \in 1..2, hi \in 1..2 :
            MediaMenor(sonda.medias, lo, hi) =>
                /\ sonda.valor[lo] = IF sonda.medias[lo] < 0 THEN "CRISE"
                                                             ELSE "BAIXA_VOLATILIDADE"
                /\ sonda.valor[hi] = "ALTA_VOLATILIDADE"

\* C14 (amended): for K = 2, when the lower fitted mean is negative the
\* lower-mean regime is labelled crisis and the higher-mean regime normal;
\* otherwise the lower-mean regime is labelled low-volatility and the
\* higher-mean regime high-volatility.
C14_DoisRegimes ==
    ClassificouSonda(2) =>
        \A lo \in 1..2, hi \in 1..2 :
            MediaMenor(sonda.medias, lo, hi) =>
                IF sonda.medias[lo] < 0
                THEN sonda.valor[lo] = "CRISE" /\ sonda.valor[hi] = "NORMAL"
                ELSE /\ sonda.valor[lo] = "BAIXA_VOLATILIDADE"
                     /\ sonda.valor[hi] = "ALTA_VOLATILIDADE"

\* C14 witness: two regimes, the second one with the lower, negative mean,
\* have been classified
C14_Witness ==
    /\ ClassificouSonda(2)
    /\ MediaMenor(sonda.medias, 2, 1)
    /\ sonda.medias[2] < 0
    /\ sonda.valor = <<"NORMAL", "CRISE">>

\* the place of a label in the ascending order of labels
Posto(k, rotulo) ==
    IF k = 3
    THEN CHOOSE p \in 1..3 : <<"CRISE", "NORMAL", "BOLHA">>[p] = rotulo
    ELSE CHOOSE p \in 1..k : "REGIME_" \o ToString(p) = rotulo

\* the labels K regimes may get
RotulosDe(k) ==
    IF k = 2 THEN {"CRISE", "NORMAL", "BAIXA_VOLATILIDADE", "ALTA_VOLATILIDADE"}
    ELSE IF k = 3 THEN {"CRISE", "NORMAL", "BOLHA"}
    ELSE {"REGIME_" \o ToString(p) : p \in 1..k}

\* C15: for K = 3 the labels crisis / normal / bubble, and for K other than 2
\* and 3 the labels REGIME_1..REGIME_K, follow the ascending order of the
\* fitted means whatever their signs; for every K each regime index gets
\* exactly one label and no two regimes share a label.
C15_RotulosPorOrdem ==
    \A k \in 1..(MaxRegimes + 1) :
        ClassificouSonda(k) =>
            /\ Len(sonda.valor) = k
            /\ \A a \in 1..k : sonda.valor[a] \in RotulosDe(k)
            /\ \A a \in 1..k, b \in 1..k : a # b => sonda.valor[a] # sonda.valor[b]
            /\ k # 2 =>
                  \A a \in 1..k, b \in 1..k :
                      MediaMenor(sonda.medias, a, b) =>
                          Posto(k, sonda.valor[a]) < Posto(k, sonda.valor[b])

\* C15 witness: three regimes whose means, all positive, are not in index
\* order have been classified
C15_Witness ==
    /\ ClassificouSonda(3)
    /\ MediaMenor(sonda.medias, 3, 1)
    /\ MediaMenor(sonda.medias, 1, 2)
    /\ sonda.medias[3] > 0
    /\ sonda.valor = <<"NORMAL", "BOLHA", "CRISE">>

-----------------------------------------------------------------------------
(* duracao_esperada as a function of the fitted transition matrix           *)

\* self-transition probabilities: 0, 0.5, 0.9 and 1
Diagonais == { FZero, FNorm(5, -1), FNorm(9, -1), FUm }

\* row-stochastic k x k matrices: d1 on the diagonal of the first row, d2 on
\* the diagonal of the others, the rest of each row spread evenly
MatrizesDe(k) ==
    { Tab(k, [i \in 1..k |-> Tab(k, [j \in 1..k |->
          IF i = j THEN (IF i = 1 THEN d1 ELSE d2)
          ELSE FDiv(UmMenos(IF i = 1 THEN d1 ELSE d2), FNorm(k - 1, 0))])]) :
      d1 \in Diagonais, d2 \in Diagonais }

\* a parametros dict with the given transition matrix
ParametrosComMatriz(P) ==
    [medias |-> Tab(Len(P), [j \in 1..Len(P) |-> 10 * j]),
     variancias |-> Tab(Len(P), [j \in 1..Len(P) |-> 1]),
     matriz_transicao |-> P,
     prob_inicial |-> Tab(Len(P), [j \in 1..Len(P) |-> FDiv(FUm, FNorm(Len(P), 0))]),
     log_verossimilhanca |-> 0,
     n_iteracoes |-> 1]

DuracaoSonda ==
    \E k \in 2..MaxRegimes :
      \E P \in MatrizesDe(k) :
        /\ sonda' = [op |-> "duracao_esperada", matriz_transicao |-> P] @@
                     DuracaoEsperada(ParametrosComMatriz(P))
        /\ sonda_ant' = sonda
        /\ UNCHANGED <<varsETC, varsLPPL, varsMS, varsConc>>

NextDuracao == DuracaoSonda

InitDuracao == Construidos(HorizonteFixo, FiltroDeMain, RestricaoPadrao, RegimesPadrao, SemChamadas)

SpecDuracao == InitDuracao /\ [][NextDuracao]_vars

\* C16 (as claimed): duracao_esperada returns for each regime i exactly
\* 1 / (1 - P[i][i]), that is a value d with d * (1 - P[i][i]) = 1, and for
\* P[i][i] = 0.9 it returns exactly 10: 10 times the denominator is 1.
C16_DuracaoExata ==
    (sonda.op = "duracao_esperada" /\ ~sonda.raise) =>
        \A i \in 1..Len(sonda.valor) :
            LET p == FParaFixo(sonda.matriz_transicao[i][i])
                d == sonda.valor[i]
            IN  /\ d.um_menos_p = 10000 - p /\ d.eps = 0
                /\ p = 9000 => (10 * d.um_menos_p = 10000 /\ 10 * d.eps = 0)

-----------------------------------------------------------------------------
(* The first forward row of ajustar on a series with one early peak        *)

\* the series: dados[0] = a (thousandths) followed by n - 1 zeros, n >= 11
PicoAs == {100, 200, 400}
PicoNs == {11, 100, 1000, 2000}

\* lines 55-62 on that series: every percentile from 10 to 90 is 0 and
\* np.var is a^2 (n - 1) / n^2
ParametrosIniciaisPico(a, n, k) ==
    [medias |-> Tab(k, [j \in 1..k |-> 0]),
     variancias |-> Tab(k, [j \in 1..k |-> (a * a * (n - 1)) \div (n * n)]),
     matriz_transicao |-> Tab(k, [i \in 1..k |-> Tab(k, [j \in 1..k |-> FDiv(FUm, FNorm(k, 0))])]),
     prob_inicial |-> Tab(k, [j \in 1..k |-> FDiv(FUm, FNorm(k, 0))])]

\* norm.pdf(dados[0], medias[j], sqrt(variancias[j])) for every j
EmissoesDe(x, p, k) == Tab(k, [j \in 1..k |-> NormPdf(x, p.medias[j], p.variancias[j])])

\* np.sum(alpha[0]) of line 75, the divisor of the first forward row
SomaAlpha0(x, p, k) ==
    FSoma(Tab(k, [j \in 1..k |-> FMul(p.prob_inicial[j], EmissoesDe(x, p, k)[j])]))

\* lines 70-75 of the first iteration on the series
Alpha0Sonda ==
    \E a \in PicoAs, n \in PicoNs, k \in 1..MaxRegimes :
      \E p \in {ParametrosIniciaisPico(a, n, k)} :
        /\ sonda' = [op |-> "alpha0", a |-> a, n |-> n, n_regimes |-> k,
                      soma |-> SomaAlpha0(a, p, k),
                      linha |-> Alpha0(p.prob_inicial, EmissoesDe(a, p, k), k)]
        /\ sonda_ant' = sonda
        /\ UNCHANGED <<varsETC, varsLPPL, varsMS, varsConc>>

NextAlpha0 == Alpha0Sonda

InitAlpha0 ==
    Construidos(HorizonteFixo, FiltroDeMain, RestricaoPadrao, RegimesPadrao, SemChamadas)

SpecAlpha0 == InitAlpha0 /\ [][NextAlpha0]_vars

\* C23 (as claimed): no division of the regime filter has a zero
\* denominator: the sum that divides the first forward row of ajustar is
\* not zero, on any series.
C23_DenominadorNuncaZero ==
    (sonda.op = "alpha0") => ~FEhZero(sonda.soma)

-----------------------------------------------------------------------------
(* Claims about the regime model                                           *)

\* the row is free of NaN and its sum is within 0.005 of 1
SomaUm(linha) ==
    /\ FParaFixo(FSoma(linha)) # NaN
    /\ Abs(FParaFixo(FSoma(linha)) - 10000) <= 50

\* C6 (as claimed): after ajustar, every row of probabilidades_filtradas and
\* every row of probabilidades_suavizadas sums to 1, on any input and for any
\* number of regimes.
C6_TracosSomamUm ==
    (parametros # None) =>
        /\ \A t \in 1..Len(probabilidades_filtradas) : SomaUm(probabilidades_filtradas[t])
        /\ \A t \in 1..Len(probabilidades_suavizadas) : SomaUm(probabilidades_suavizadas[t])

\* C7 (as claimed): after ajustar, every row of the returned transition matrix
\* sums to 1 and the returned initial distribution sums to 1, on any input and
\* for any number of regimes.
C7_MatrizEInicialSomamUm ==
    (parametros # None) =>
        /\ \A i \in 1..n_regimes : SomaUm(parametros.matriz_transicao[i])
        /\ SomaUm(parametros.prob_inicial)

ConsultasMS ==
    {"prever_regime", "classificar_regimes", "duracao_esperada", "filtrar", "suavizar"}

\* C8 (as claimed): on a model on which no ajustar has completed, each of
\* prever_regime, classificar_regimes, duracao_esperada, filtrar and suavizar
\* fails with the not-fitted error and returns no value.
C8_ConsultaSemAjusteFalha ==
    (ret_ms.op \in ConsultasMS /\ parametros = None) =>
        (ret_ms.raise /\ ret_ms.erro = "ValueError")

\* what the loop on dados with k regimes holds at the end of each of its first
\* MaxIter iterations: the loop run i times with no early exit
Trajetorias ==
    { [k |-> k, dados |-> dados, i |-> i, fim |-> Ajustar(k, dados, i, 0).fim] :
      k \in 1..MaxRegimes, dados \in DadosMS \ {<<>>}, i \in 1..MaxIter }

FimNa(k, dados, i) ==
    (CHOOSE h \in Trajetorias : h.k = k /\ h.dados = dados /\ h.i = i).fim

\* the log-likelihood at the end of iteration i
LogVeroNa(k, dados, i) == FimNa(k, dados, i).parametros.log_verossimilhanca

\* the test of line 152 passes at the end of iteration i (i >= 1)
MudancaAbaixoDeTol(k, dados, i, tol) ==
    /\ i >= 2
    /\ LogVeroNa(k, dados, i) # NaN
    /\ LogVeroNa(k, dados, i - 1) # NaN
    /\ Abs(LogVeroNa(k, dados, i) - LogVeroNa(k, dados, i - 1)) < tol

\* an ajustar call has returned
AjustarRetornou == ret_ms.op = "ajustar" /\ ~ret_ms.raise

\* C22: ajustar ends on every input: it raises only on an empty series or
\* with max_iter = 0; with max_iter >= 1 it performs between 1 and max_iter
\* iterations and reports their number in n_iteracoes; it stops before
\* max_iter exactly when the absolute change of the log-likelihood between two
\* consecutive iterations is below tol: the last iteration performed is the
\* first to pass that test, or is iteration max_iter.
C22_IteracoesLimitadas ==
    /\ (ret_ms.op = "ajustar" /\ ret_ms.raise) =>
            ret_ms.erro \in {"IndexError", "UnboundLocalError"}
    /\ AjustarRetornou =>
          LET n == ret_ms.valor.n_iteracoes
          IN  /\ ret_ms.max_iter >= 1
              /\ 1 <= n /\ n <= ret_ms.max_iter
              /\ ret_ms.valor.log_verossimilhanca = LogVeroNa(n_regimes, ret_ms.dados, n)
              /\ n < ret_ms.max_iter =>
                     MudancaAbaixoDeTol(n_regimes, ret_ms.dados, n, ret_ms.tol)
              /\ \A i \in 1..(n - 1) :
                     ~MudancaAbaixoDeTol(n_regimes, ret_ms.dados, i, ret_ms.tol)

\* an ajustar call left the loop by convergence before max_iter
C22_Witness ==
    /\ AjustarRetornou
    /\ ret_ms.valor.n_iteracoes >= 2
    /\ ret_ms.valor.n_iteracoes < ret_ms.max_iter
    /\ ret_ms.valor.log_verossimilhanca # NaN

\* the E-step on dados under the fitted parameters of the model
FiltroSobre(dados) ==
    PassoE(dados, n_regimes, parametros.medias, parametros.variancias,
           parametros.matriz_transicao, parametros.prob_inicial)

\* C21 (as claimed): on a fitted model filtrar(dados) returns the filtered
\* probabilities of the series dados, one row per observation of dados, and
\* suavizar(dados) the smoothed probabilities of dados.
C21_FiltroSobreDados ==
    (ret_ms.op \in {"filtrar", "suavizar"} /\ ~ret_ms.raise /\ parametros # None) =>
        /\ Len(ret_ms.valor) = Len(ret_ms.dados)
        /\ ret_ms.valor = IF ret_ms.op = "filtrar" THEN FiltroSobre(ret_ms.dados).alpha
                          ELSE FiltroSobre(ret_ms.dados).gamma

\* the initial distribution the last E-step of a call of n iterations ran
\* with: the one of line 62, or the one the M-step before it assigned
PiDoUltimoPassoE(k, dados, n) ==
    IF n = 1 THEN ParametrosIniciais(dados, k).prob_inicial
    ELSE FimNa(k, dados, n - 1).parametros.prob_inicial

\* C28 (as claimed): the filtered and smoothed probabilities ajustar stores
\* are the forward-backward output computed under the means, variances and
\* transition matrix it returns in parametros, whether the loop ended by
\* convergence or at max_iter.
C28_TracosSobParametrosDevolvidos ==
    AjustarRetornou =>
        \E e \in {PassoE(ret_ms.dados, n_regimes, ret_ms.valor.medias,
                          ret_ms.valor.variancias, ret_ms.valor.matriz_transicao,
                          PiDoUltimoPassoE(n_regimes, ret_ms.dados,
                                           ret_ms.valor.n_iteracoes))} :
            /\ probabilidades_filtradas = e.alpha
            /\ probabilidades_suavizadas = e.gamma

\* a trace of one row per observation and one column per regime
FormaDe(traco, dados, k) ==
    /\ Len(traco) = Len(dados)
    /\ \A t \in 1..Len(traco) : Len(traco[t]) = k

\* C29: an ajustar call that returns replaces parametros with the dict it
\* returns and both traces with the traces of that same call, each of
\* len(dados) rows and n_regimes columns; an ajustar call that raises, and
\* every query, leaves all three as they were. So after any sequence of calls
\* the three come from the most recently completed ajustar.
C29_TresAtributosDaMesmaChamada ==
    [][ /\ (ret_ms'.op = "ajustar" /\ ~ret_ms'.raise) =>
              LET fim == FimNa(n_regimes, ret_ms'.dados, ret_ms'.valor.n_iteracoes)
              IN  /\ parametros' = ret_ms'.valor
                  /\ parametros' = fim.parametros
                  /\ probabilidades_filtradas' = fim.alpha
                  /\ probabilidades_suavizadas' = fim.gamma
                  /\ FormaDe(probabilidades_filtradas', ret_ms'.dados, n_regimes)
                  /\ FormaDe(probabilidades_suavizadas', ret_ms'.dados, n_regimes)
        /\ ~(ret_ms'.op = "ajustar" /\ ~ret_ms'.raise) =>
              /\ parametros' = parametros
              /\ probabilidades_filtradas' = probabilidades_filtradas
              /\ probabilidades_suavizadas' = probabilidades_suavizadas
      ]_vars

\* C29 witness: an ajustar call has raised on a model that holds the
\* parameters and the three-row traces of an earlier call
C29_Witness ==
    /\ ret_ms.op = "ajustar"
    /\ ret_ms.raise
    /\ parametros # None
    /\ Len(probabilidades_filtradas) = 3
    /\ Len(probabilidades_suavizadas) = 3

-----------------------------------------------------------------------------
(* Fit calls on two instances, step by step                                *)

\* arguments of a fit call, with what the optimisers deliver on them
ArgumentosDe(classe) ==
    CASE classe = "EstimadorTempoCritico" ->
            UNION { { [tempos |-> t, ol |-> ol, os |-> [frac |-> 0, conf |-> 9],
                       th |-> th, v |-> [b |-> 3, sigma |-> 50]] :
                      ol \in OtimLppl, th \in ThetasDe(t.n) } :
                    t \in { u \in SeriesETC : u.n # 26 } }
      [] classe = "AnalisadorLogPeriodico" ->
            { [tempos |-> t, resultado |-> r] :
              t \in SeriesLPPL, r \in Resultados(None) }
      [] classe = "ModeloMarkovSwitching" ->
            { [dados |-> d, max_iter |-> 2, tol |-> TolPadrao] : d \in DadosMS }

\* an ndarray bound to an attribute
Array(valores) == [tipo |-> "array", valores |-> valores]

\* the body of the fit method up to its first assignment to self: it reads
\* the arguments and attributes of self that __init__ bound, and builds every
\* other object it uses inside the call (the AnalisadorLogPeriodico of
\* _estimar_tc_lppl, the arrays and the dict of ajustar).  What it delivers:
\* the exception it raises, or the attribute assignments it goes on to make,
\* in order, and the value it returns; and the warnings it issues
Execucao(classe, self, args) ==
    CASE classe = "EstimadorTempoCritico" ->
            LET r == EstimarMultiplosMetodos(args.tempos,
                         SubEstimativas(args.tempos, args.ol, args.os, args.th, args.v,
                                        self.horizonte_maximo))
            IN  [raise |-> r.raise, avisos |-> r.avisos, ret |-> r,
                 escritas |-> IF r.raise THEN <<>>
                              ELSE << <<"tc_estimado", r.tc_medio>>,
                                      <<"intervalo_confianca", r.intervalo_confianca>> >>]
      [] classe = "AnalisadorLogPeriodico" ->
            LET p == ParametrosOtimos(args.tempos, args.resultado)
            IN  [raise |-> FALSE, avisos |-> {}, ret |-> p,
                 escritas |-> << <<"parametros_otimos", p>> >>]
      [] classe = "ModeloMarkovSwitching" ->
            LET r == AjusteDe(self.n_regimes, args.dados, args.max_iter, args.tol)
            IN  IF r.raise
                THEN [raise |-> TRUE, avisos |-> {}, ret |-> r, escritas |-> <<>>]
                ELSE [raise |-> FALSE, avisos |-> {}, ret |-> r.fim.parametros,
                      escritas |-> << <<"parametros", r.fim.parametros>>,
                                      <<"probabilidades_filtradas", Array(r.fim.alpha)>>,
                                      <<"probabilidades_suavizadas", Array(r.fim.gamma)>> >>]

\* mutant: the attributes are bound on the class, which its instances share
ObjetoDaClasse(classe, i) == <<classe, 1>>

\* self in a call on the i-th instance of the class: the object its
\* constructor call built, on which __init__ bound the attributes
ObjetoDe(classe, i) == <<classe, i>>

\* self.nome = valor
Escrever(campos, escrita) == [campos EXCEPT ![escrita[1]] = escrita[2]]

\* the attributes after the assignments, made in order
RECURSIVE CamposApos(_, _)
CamposApos(campos, escritas) ==
    IF escritas = <<>> THEN campos
    ELSE CamposApos(Escrever(campos, Head(escritas)), Tail(escritas))

\* a call is between its first and its last step
EmCurso(chamada) == chamada.pc \notin {"ocioso", "fim"}

\* the fit method is called on an instance
Chamar ==
    \E i \in DOMAIN chamadas :
      \E args \in ArgumentosDe(chamadas[i].classe) :
        /\ chamadas[i].pc = "ocioso"
        /\ chamadas' = [chamadas EXCEPT ![i] =
                [@ EXCEPT !.pc = "calculando", !.args = args,
                          !.sobreposta = \E j \in DOMAIN chamadas \ {i} :
                                             EmCurso(chamadas[j])]]
        /\ UNCHANGED <<objetos, varsETC, varsSonda, varsLPPL, varsMS>>

\* the call computes its results in local variables, issuing its warnings
Calcular ==
    \E i \in DOMAIN chamadas :
      /\ chamadas[i].pc = "calculando"
      /\ \E e \in { Execucao(chamadas[i].classe,
                              objetos[ObjetoDe(chamadas[i].classe, i)],
                              chamadas[i].args) } :
            /\ chamadas' = [chamadas EXCEPT ![i] =
                    [@ EXCEPT !.pc = IF e.escritas = <<>> THEN "retornando" ELSE "gravando",
                              !.pendentes = e.escritas, !.resultado = e.ret]]
            /\ avisos_exibidos' = AvisosExibidos(filtro_avisos, registro_avisos, e.avisos)
            /\ registro_avisos' = RegistroApos(filtro_avisos, registro_avisos, e.avisos)
      /\ UNCHANGED <<objetos, horizonte_maximo, tc_estimado, intervalo_confianca,
                     ultimo_tc_medio, ret, filtro_avisos, varsSonda, varsLPPL, varsMS>>

\* the call makes its next assignment to an attribute of self
Gravar ==
    \E i \in DOMAIN chamadas :
      /\ chamadas[i].pc = "gravando"
      /\ objetos' = [objetos EXCEPT ![ObjetoDe(chamadas[i].classe, i)] =
                        Escrever(@, Head(chamadas[i].pendentes))]
      /\ chamadas' = [chamadas EXCEPT ![i] =
              [@ EXCEPT !.pc = IF Tail(chamadas[i].pendentes) = <<>>
                               THEN "retornando" ELSE "gravando",
                        !.pendentes = Tail(chamadas[i].pendentes)]]
      /\ UNCHANGED <<varsETC, varsSonda, varsLPPL, varsMS>>

\* the call returns, or raises
Retornar ==
    \E i \in DOMAIN chamadas :
      /\ chamadas[i].pc = "retornando"
      /\ chamadas' = [chamadas EXCEPT ![i] =
              [@ EXCEPT !.pc = "fim", !.ret = chamadas[i].resultado]]
      /\ UNCHANGED <<objetos, varsETC, varsSonda, varsLPPL, varsMS>>

NextConc == Chamar \/ Calcular \/ Gravar \/ Retornar

\* two instances, of any two of the classes
InitConc ==
    Construidos(HorizonteFixo, FiltrosAvisos, RestricaoPadrao, RegimesPadrao,
                Classes \X Classes)

SpecConc == InitConc /\ [][NextConc]_vars

\* C19: fit calls on two distinct instances do not interfere: however their
\* steps interleave, a call that has ended has returned (or raised) what the
\* call alone on a newly built instance returns, and has left on its instance
\* the attributes that call leaves.
C19_InstanciasIndependentes ==
    \A i \in DOMAIN chamadas :
        chamadas[i].pc = "fim" =>
            LET c == chamadas[i]
                e == Execucao(c.classe, CamposIniciais(c.classe), c.args)
            IN  /\ c.ret = e.ret
                /\ objetos[ObjetoDe(c.classe, i)] =
                       CamposApos(CamposIniciais(c.classe), e.escritas)

\* two calls of the same class with different arguments have both ended,
\* one of them begun while the other was running, each having bound
\* attributes on its instance
C19_Witness ==
    /\ DOMAIN chamadas = {1, 2}
    /\ chamadas[1].pc = "fim" /\ chamadas[2].pc = "fim"
    /\ chamadas[1].classe = chamadas[2].classe
    /\ chamadas[1].args # chamadas[2].args
    /\ chamadas[2].sobreposta
    /\ \A i \in {1, 2} :
          objetos[ObjetoDe(chamadas[i].classe, i)] # CamposIniciais(chamadas[i].classe)
    /\ objetos[ObjetoDe(chamadas[1].classe, 1)] # objetos[ObjetoDe(chamadas[2].classe, 2)]

-----------------------------------------------------------------------------
(* Claims about the LPPL analyser                                          *)

\* C3 (as claimed): the tc returned by ajustar_lppl is strictly greater than
\* the last input time tempos[-1], for the default tc bounds and for any
\* restricao_tc given to the constructor, with either fitting method.
C3_TcNoFuturo ==
    (ret_lppl.op = "ajustar_lppl") => ret_lppl.parametros.tc > ret_lppl.tempos.tN

\* the series of SeriesLPPL with the identity id
SerieDe(id) == CHOOSE s \in SeriesLPPL : s.id = id

\* a prever call on a fitted analyser has returned
PreverRetornou == ret_lppl.op = "prever" /\ ~ret_lppl.raise

\* C20 (as claimed): prever evaluates the fitted model at times on the scale
\* of the tempos given to ajustar_lppl: at a time of the fitted series, and at
\* a time after the last observation and before tc, it returns the exponential
\* of the fitted curve at that time, that is at the normalised time the fit
\* gave it.
C20_PreverNaEscalaDoAjuste ==
    PreverRetornou =>
        LET p == parametros_otimos
            s == SerieDe(p.serie)
            t == ret_lppl.tempo
        IN  (s.t0 <= t /\ t < p.tc) =>
                ret_lppl.valor = Exp(ModeloLppl(TNorm(s, t), p.A, p.B, p.t_c_norm,
                                                p.m, p.omega, p.phi))

\* C27 (as claimed): the confidence calcular_confianca_lppl(tempos, precos)
\* returns is computed from parameters that were fitted to that same series,
\* never from parameters an earlier fit on a different series left.
C27_ConfiancaDaMesmaSerie ==
    (ret_lppl.op = "calcular_confianca_lppl") =>
        ret_lppl.params.serie = ret_lppl.tempos.id

=========================================================================
